---- MODULE Spec2Model ----
(***************************************************************************)
(* A model of the conversational-analytics backend: the agent routes       *)
(* (api/agents.py) and the chat routes with the response normalizer        *)
(* (api/chat.py).  Each HTTP handler is one action that takes the request  *)
(* and the answers of the remote services as inputs and leaves the         *)
(* response and the log of the remote calls it issued in the state.        *)
(* Spec serves one request at a time; LoopSpec serves several requests as  *)
(* tasks of one event loop, interleaved at their suspensions.              *)
(*                                                                         *)
(* Python values are modelled as follows.  None is the string None.        *)
(* Strings that the code only copies are TLA+ strings; strings that the    *)
(* code searches, splits or compares by order (resource names, the text    *)
(* of an upstream error, ISO-8601 timestamps) are sequences of             *)
(* one-character strings.  An exception is a record with its class.        *)
(***************************************************************************)
EXTENDS Integers, Sequences, FiniteSets, TLC

VARIABLES
    phase,      \* "idle": waiting for a request; "streaming": chat_stream is
                \* suspended; "done": the handler, or the function, has answered
    op,         \* the handler or function that served the last request
    req,        \* the inputs of that request, with the answer of the token
                \* introspection where the route depends on validate_token
    rpcs,       \* the remote calls the handler issued, in order, with their answers
    resp,       \* the HTTP response of the handler
    reply,      \* function on its own: the object given to a formatter
    envelope,   \* function on its own: what a formatter or verifier returned
                \* or raised
    stream,     \* the chat_stream generator of send_message: where it is
                \* suspended, the chunks it has taken, the lines it has emitted
    tasks,      \* requests served concurrently on one event loop: for each
                \* task its request, its position, its remote calls, its
                \* response and its stream
    running     \* the task that holds the thread of the event loop, or 0

vars == <<phase, op, req, rpcs, resp, reply, envelope, stream, tasks, running>>

(***************************************************************************)
(* Python values                                                           *)
(***************************************************************************)

\* Python's None.
None == "None"

\* Truthiness of an optional string, as `all` and `if` test it.
Truthy(v) == v # None /\ v # ""

\* all([...]) over a list of optional strings.
All(vs) == \A i \in 1..Len(vs) : Truthy(vs[i])

\* The value of os.getenv("PROJECT_ID").
PROJECT_ID == "proj"

(***************************************************************************)
(* Exceptions                                                              *)
(***************************************************************************)

\* The subclasses of google.api_core.exceptions.GoogleAPICallError used here.
GoogleAPICallErrorClasses ==
    {"NotFound", "PermissionDenied", "InternalServerError", "InvalidArgument",
     "ResourceExhausted", "Unauthenticated"}

IsGoogleAPICallError(e) == e.class \in GoogleAPICallErrorClasses

\* raise HTTPException(status_code=..., detail=...)
HTTPException(status_code, detail) ==
    [class |-> "HTTPException", status_code |-> status_code, detail |-> detail]

\* What a handler hands to the framework: a value returned or an exception raised.
Return(value, calls) == [raised |-> FALSE, value |-> value, calls |-> calls]
Raise(exc, calls) == [raised |-> TRUE, exc |-> exc, calls |-> calls]

\* The framework's answer for what the handler handed it.
HttpResponse(result) ==
    IF result.raised
    THEN [status |-> result.exc.status_code, detail |-> result.exc.detail]
    ELSE [status |-> 200, body |-> result.value]

\* str(e) of an exception: a GoogleAPICallError prints its status code, a
\* space and its message; any other exception prints its message.
Str(e) ==
    IF IsGoogleAPICallError(e) THEN e.code \o <<" ">> \o e.message ELSE e.message

\* The errors a remote call may raise.  The first two are the permission and
\* not-found errors; the next three are errors of other kinds whose text
\* happens to hold "403", "404" or the word permission; ConnectionError is no
\* GoogleAPICallError.
UpstreamErrors ==
    {[class |-> "PermissionDenied", code |-> <<"4", "0", "3">>,
      message |-> <<"d", "e", "n", "i", "e", "d">>],
     [class |-> "NotFound", code |-> <<"4", "0", "4">>,
      message |-> <<"g", "o", "n", "e">>],
     [class |-> "InternalServerError", code |-> <<"5", "0", "0">>,
      message |-> <<"b", "o", "o", "m">>],
     [class |-> "InternalServerError", code |-> <<"5", "0", "0">>,
      message |-> <<"i", "d", " ", "1", "4", "0", "3", "9">>],
     [class |-> "ResourceExhausted", code |-> <<"4", "2", "9">>,
      message |-> <<"q", "u", "o", "t", "a", " ", "2", "4", "0", "4">>],
     [class |-> "InvalidArgument", code |-> <<"4", "0", "0">>,
      message |-> <<"b", "a", "d", " ", "P", "e", "r", "m", "i", "s", "s",
                    "i", "o", "n", "s", " ", "f", "i", "e", "l", "d">>],
     [class |-> "ConnectionError", code |-> <<>>,
      message |-> <<"r", "e", "s", "e", "t", " ", "4", "0", "3">>]}

\* The errors the agent service may raise.
AgentServiceErrors == UpstreamErrors

(***************************************************************************)
(* Bearer tokens and the credentials of the agent routes                   *)
(***************************************************************************)

\* An optional structured value: Nothing is None, Some(v) is v.
Nothing == <<>>
Some(v) == <<v>>

\* The values of os.getenv("GOOGLE_CLIENT_ID") and of
\* os.getenv("GOOGLE_CLIENT_SECRET").
GOOGLE_CLIENT_ID == "client-id"
GOOGLE_CLIENT_SECRET == "client-secret"

\* The bearer tokens of a request: a token issued to this application, a
\* token that has expired, and a live token issued to another application.
BearerTokens == {"T1", "expired", "foreign"}

\* The tokens the remote services accept: they test that a token is live,
\* not which application it was issued to.
LiveTokens == {"T1", "foreign"}

\* The error of a remote call made with a token that is not live.
Unauthenticated ==
    [class |-> "Unauthenticated", code |-> <<"4", "0", "1">>,
     message |-> <<"i", "n", "v", "a", "l", "i", "d", " ",
                   "c", "r", "e", "d", "e", "n", "t", "i", "a", "l", "s">>]

\* The answers a remote call made with token may get: any of outcomes for
\* a live token, the refusal for any other.
AnswersFor(token, outcomes) ==
    IF token \in LiveTokens THEN outcomes
    ELSE {[ok |-> FALSE, exc |-> Unauthenticated]}

\* get_credentials: the credentials built from the bearer token.
GetCredentials(token) ==
    [token |-> token,
     token_uri |-> "https://oauth2.googleapis.com/token",
     client_id |-> GOOGLE_CLIENT_ID,
     client_secret |-> GOOGLE_CLIENT_SECRET]

(***************************************************************************)
(* Agent routes: request models                                            *)
(***************************************************************************)

DisplayNames == {"dn1", "dn2"}
Descriptions == {"de1", "de2"}
SystemInstructions == {"si1", "si2"}

\* class DataAgentRequest
DataAgentRequests ==
    [display_name : {"dn1"},
     description : {"de1"},
     system_instruction : {"si1"},
     data_source : {"BigQuery", "Looker", "Sheets", "bigquery"},
     bq_project_id : {None, "", "bqp"},
     bq_dataset_id : {None, "", "bqd"},
     bq_table_id : {None, "bqt"},
     looker_instance_url : {None, "", "lki"},
     looker_model : {None, "lkm"},
     looker_explore : {None, "lke"}]

\* class DataAgentUpdateRequest
DataAgentUpdateRequests ==
    [display_name : DisplayNames,
     description : Descriptions,
     system_instruction : SystemInstructions]

\* The identifiers uuid.uuid4() may produce.
AgentIds == {"u1", "u2"}

\* geminidataanalytics.DatasourceReferences(): no kind set.
DatasourceReferences == [kinds |-> {}, bq |-> <<>>, looker |-> <<>>, studio |-> <<>>]

\* geminidataanalytics.DataAgent(): every field empty.
DataAgent ==
    [name |-> "", display_name |-> "", description |-> "",
     data_analytics_agent |->
        [published_context |->
            [datasource_references |-> DatasourceReferences,
             system_instruction |-> ""]]]

\* The name create_agent gives a new agent.
AgentName(agent_id) ==
    <<"projects/", PROJECT_ID, "/locations/global/dataAgents/", "a", agent_id>>

\* The answers of the remote create call: the operation resolves, or fails.
CreateOutcomes ==
    {[ok |-> TRUE]} \cup {[ok |-> FALSE, exc |-> e] : e \in AgentServiceErrors}

\* CreateDatasource without its checks of the required fields and of the
\* discriminator.
CreateDatasourceUnvalidated(agent_data) ==
    IF agent_data.data_source = "Looker"
    THEN [raised |-> FALSE,
          value |-> [DatasourceReferences EXCEPT
              !.kinds = @ \cup {"looker"},
              !.looker = <<[looker_instance_uri |-> agent_data.looker_instance_url,
                            lookml_model |-> agent_data.looker_model,
                            explore |-> agent_data.looker_explore]>>]]
    ELSE [raised |-> FALSE,
          value |-> [DatasourceReferences EXCEPT
              !.kinds = @ \cup {"bq"},
              !.bq = <<[project_id |-> agent_data.bq_project_id,
                        dataset_id |-> agent_data.bq_dataset_id,
                        table_id |-> agent_data.bq_table_id]>>]]

\* CreateDatasource choosing the kinds by the fields the request carries.
CreateDatasourceByFields(agent_data) ==
    LET bq == All(<<agent_data.bq_project_id, agent_data.bq_dataset_id,
                    agent_data.bq_table_id>>)
        lk == All(<<agent_data.looker_instance_url, agent_data.looker_model,
                    agent_data.looker_explore>>)
        withBq == IF bq
                  THEN [DatasourceReferences EXCEPT
                          !.kinds = @ \cup {"bq"},
                          !.bq = <<[project_id |-> agent_data.bq_project_id,
                                    dataset_id |-> agent_data.bq_dataset_id,
                                    table_id |-> agent_data.bq_table_id]>>]
                  ELSE DatasourceReferences
        withBoth == IF lk
                    THEN [withBq EXCEPT
                          !.kinds = @ \cup {"looker"},
                          !.looker = <<[looker_instance_uri |-> agent_data.looker_instance_url,
                                        lookml_model |-> agent_data.looker_model,
                                        explore |-> agent_data.looker_explore]>>]
                    ELSE withBq
    IN  IF agent_data.data_source \in {"BigQuery", "Looker"} /\ (bq \/ lk)
        THEN [raised |-> FALSE, value |-> withBoth]
        ELSE [raised |-> TRUE,
              exc |-> HTTPException(400, "datasource fields are required")]

\* The branch of create_agent on data_source: the datasource references, or
\* the HTTPException of a failed validation.
CreateDatasource(agent_data) ==
    IF agent_data.data_source = "BigQuery"
    THEN IF ~All(<<agent_data.bq_project_id, agent_data.bq_dataset_id,
                   agent_data.bq_table_id>>)
         THEN [raised |-> TRUE,
               exc |-> HTTPException(400,
                   "BigQuery project_id, dataset_id, and table_id are required")]
         ELSE [raised |-> FALSE,
               value |-> [DatasourceReferences EXCEPT
                   !.kinds = @ \cup {"bq"},
                   !.bq = <<[project_id |-> agent_data.bq_project_id,
                             dataset_id |-> agent_data.bq_dataset_id,
                             table_id |-> agent_data.bq_table_id]>>]]
    ELSE IF agent_data.data_source = "Looker"
    THEN IF ~All(<<agent_data.looker_instance_url, agent_data.looker_model,
                   agent_data.looker_explore>>)
         THEN [raised |-> TRUE,
               exc |-> HTTPException(400,
                   "Looker instance URL, model, and explore are required")]
         ELSE [raised |-> FALSE,
               value |-> [DatasourceReferences EXCEPT
                   !.kinds = @ \cup {"looker"},
                   !.looker = <<[looker_instance_uri |-> agent_data.looker_instance_url,
                                 lookml_model |-> agent_data.looker_model,
                                 explore |-> agent_data.looker_explore]>>]]
    ELSE [raised |-> TRUE,
          exc |-> HTTPException(400,
              "Invalid data source. Must be 'BigQuery' or 'Looker'")]

\* The try block of create_agent: what it returns or raises, and the remote
\* calls it issued.  The remote service answers a create with the agent it
\* was given.
CreateAgentTry(creds, agent_data, agent_id, outcome) ==
    LET ds == CreateDatasource(agent_data)
        agent == [DataAgent EXCEPT
            !.name = AgentName(agent_id),
            !.display_name = agent_data.display_name,
            !.description = agent_data.description,
            !.data_analytics_agent.published_context =
                [datasource_references |-> ds.value,
                 system_instruction |-> agent_data.system_instruction]]
        call == [rpc |-> "create_data_agent",
                 credentials |-> creds,
                 parent |-> <<"projects/", PROJECT_ID, "/locations/global">>,
                 data_agent_id |-> <<"a", agent_id>>,
                 data_agent |-> agent,
                 outcome |-> outcome]
    IN  IF ds.raised THEN Raise(ds.exc, <<>>)
        ELSE IF ~outcome.ok THEN Raise(outcome.exc, <<call>>)
        ELSE Return([message |-> <<"Agent '", agent_data.display_name,
                                   "' successfully created">>,
                     agent |-> [name |-> agent.name,
                                display_name |-> agent.display_name,
                                description |-> agent.description]],
                    <<call>>)

\* AgentExcept answering an upstream NotFound with status 404.
AgentExceptNotFound404(result, what) ==
    IF ~result.raised THEN result
    ELSE IF IsGoogleAPICallError(result.exc)
    THEN Raise(HTTPException(IF result.exc.class = "NotFound" THEN 404 ELSE 500,
                             [prefix |-> what, cause |-> result.exc]),
               result.calls)
    ELSE Raise(HTTPException(500, [prefix |-> "Unexpected error: ",
                                   cause |-> result.exc]),
               result.calls)

\* The except clauses shared by the agent handlers: a GoogleAPICallError and
\* any other exception, an HTTPException raised in the try block included,
\* become an HTTPException with status 500.
AgentExcept(result, what) ==
    IF ~result.raised THEN result
    ELSE IF IsGoogleAPICallError(result.exc)
    THEN Raise(HTTPException(500, [prefix |-> what, cause |-> result.exc]),
               result.calls)
    ELSE Raise(HTTPException(500, [prefix |-> "Unexpected error: ",
                                   cause |-> result.exc]),
               result.calls)

\* POST /agents
create_agent ==
    /\ phase = "idle"
    /\ \E token \in BearerTokens, agent_data \in DataAgentRequests,
          agent_id \in AgentIds :
       \E outcome \in AnswersFor(token, CreateOutcomes) :
        LET result == AgentExcept(CreateAgentTry(GetCredentials(token), agent_data,
                                                 agent_id, outcome),
                                  "API error creating agent: ")
        IN  /\ phase' = "done"
            /\ op' = "create_agent"
            /\ req' = [token |-> token, agent_data |-> agent_data]
            /\ rpcs' = result.calls
            /\ resp' = HttpResponse(result)
    /\ UNCHANGED <<reply, envelope, stream>>
    /\ UNCHANGED <<tasks, running>>

(***************************************************************************)
(* PUT /agents/{agent_name}                                                *)
(***************************************************************************)

\* The agent_name path parameters.
AgentNames == {"agents/a1", "agents/a2"}

\* The datasource references an agent of the remote service may carry.
PriorDatasourceReferences ==
    {DatasourceReferences,
     [DatasourceReferences EXCEPT
        !.kinds = {"bq"},
        !.bq = <<[project_id |-> "p0", dataset_id |-> "d0", table_id |-> "t0"]>>],
     [DatasourceReferences EXCEPT
        !.kinds = {"bq"},
        !.bq = <<[project_id |-> "p0", dataset_id |-> "d0", table_id |-> "t0"],
                 [project_id |-> "p0", dataset_id |-> "d0", table_id |-> "t1"]>>],
     [DatasourceReferences EXCEPT
        !.kinds = {"looker"},
        !.looker = <<[looker_instance_uri |-> "i0", lookml_model |-> "m0",
                      explore |-> "e0"]>>],
     [DatasourceReferences EXCEPT
        !.kinds = {"studio"},
        !.studio = <<[datasource_id |-> "s0"]>>]}

\* The agents get_data_agent may answer with for agent_name.
ExistingAgents(agent_name) ==
    {[DataAgent EXCEPT
        !.name = agent_name,
        !.display_name = "dn0",
        !.description = "de0",
        !.data_analytics_agent.published_context =
            [datasource_references |-> ds, system_instruction |-> "si0"]] :
     ds \in PriorDatasourceReferences}

\* The answers of get_data_agent: the agent, or an error (NotFound when the
\* agent does not exist).
GetOutcomes(agent_name) ==
    {[ok |-> TRUE, agent |-> a] : a \in ExistingAgents(agent_name)}
    \cup {[ok |-> FALSE, exc |-> e] : e \in AgentServiceErrors}

\* The answers of update_data_agent.
UpdateOutcomes ==
    {[ok |-> TRUE]} \cup {[ok |-> FALSE, exc |-> e] : e \in AgentServiceErrors}

\* UpdatedAgent with a fresh published context: the datasource references of
\* the existing agent are not copied.
UpdatedAgentFreshContext(agent_name, agent_data, existing_agent) ==
    [DataAgent EXCEPT
        !.name = agent_name,
        !.display_name = agent_data.display_name,
        !.description = agent_data.description,
        !.data_analytics_agent.published_context.system_instruction =
            agent_data.system_instruction]

\* The agent update_agent builds from the request and the existing agent.
UpdatedAgent(agent_name, agent_data, existing_agent) ==
    [DataAgent EXCEPT
        !.name = agent_name,
        !.display_name = agent_data.display_name,
        !.description = agent_data.description,
        !.data_analytics_agent.published_context =
            [datasource_references |->
                existing_agent.data_analytics_agent.published_context
                    .datasource_references,
             system_instruction |-> agent_data.system_instruction]]

\* The try block of update_agent.  The remote service answers an update with
\* the agent it was given.
UpdateAgentTry(creds, agent_name, agent_data, getOutcome, updateOutcome) ==
    LET get == [rpc |-> "get_data_agent", credentials |-> creds,
                name |-> agent_name, outcome |-> getOutcome]
        agent == UpdatedAgent(agent_name, agent_data, getOutcome.agent)
        update == [rpc |-> "update_data_agent", credentials |-> creds,
                   data_agent |-> agent,
                   update_mask |-> "*", outcome |-> updateOutcome]
    IN  IF ~getOutcome.ok THEN Raise(getOutcome.exc, <<get>>)
        ELSE IF ~updateOutcome.ok THEN Raise(updateOutcome.exc, <<get, update>>)
        ELSE Return([message |-> "Agent successfully updated",
                     agent |-> [name |-> agent.name,
                                display_name |-> agent.display_name,
                                description |-> agent.description]],
                    <<get, update>>)

\* PUT /agents/{agent_name}
update_agent ==
    /\ phase = "idle"
    /\ \E token \in BearerTokens, agent_name \in AgentNames,
          agent_data \in DataAgentUpdateRequests :
       \E getOutcome \in AnswersFor(token, GetOutcomes(agent_name)),
          updateOutcome \in AnswersFor(token, UpdateOutcomes) :
        LET result == AgentExcept(
                UpdateAgentTry(GetCredentials(token), agent_name, agent_data,
                               getOutcome, updateOutcome),
                "API error updating agent: ")
        IN  /\ phase' = "done"
            /\ op' = "update_agent"
            /\ req' = [token |-> token, agent_name |-> agent_name,
                       agent_data |-> agent_data]
            /\ rpcs' = result.calls
            /\ resp' = HttpResponse(result)
    /\ UNCHANGED <<reply, envelope, stream>>
    /\ UNCHANGED <<tasks, running>>

(***************************************************************************)
(* Strings that the chat routes search, split and order                    *)
(***************************************************************************)

\* `sub in s` for two strings.
Contains(sub, s) ==
    \E i \in 0..(Len(s) - Len(sub)) : SubSeq(s, i + 1, i + Len(sub)) = sub

\* s.split(sep) for a one-character separator.
RECURSIVE Split(_, _)
Split(s, sep) ==
    IF \A i \in 1..Len(s) : s[i] # sep
    THEN <<s>>
    ELSE LET i == CHOOSE k \in 1..Len(s) :
                    s[k] = sep /\ \A j \in 1..(k - 1) : s[j] # sep
         IN  <<SubSeq(s, 1, i - 1)>> \o Split(SubSeq(s, i + 1, Len(s)), sep)

\* seq[-1]
Last(seq) == seq[Len(seq)]

LowerCase ==
    <<"a", "b", "c", "d", "e", "f", "g", "h", "i", "j", "k", "l", "m",
      "n", "o", "p", "q", "r", "s", "t", "u", "v", "w", "x", "y", "z">>
UpperCase ==
    <<"A", "B", "C", "D", "E", "F", "G", "H", "I", "J", "K", "L", "M",
      "N", "O", "P", "Q", "R", "S", "T", "U", "V", "W", "X", "Y", "Z">>

\* s.upper()
Upper(s) ==
    [i \in 1..Len(s) |->
        IF \E k \in 1..Len(LowerCase) : LowerCase[k] = s[i]
        THEN UpperCase[CHOOSE k \in 1..Len(LowerCase) : LowerCase[k] = s[i]]
        ELSE s[i]]

(***************************************************************************)
(* Chat routes: credentials                                                *)
(***************************************************************************)

\* The dictionaries the validate_token dependency may hand to a chat handler:
\* the claims of the introspection endpoint, which the code does not
\* constrain beyond their audience.  The scope is a string of words
\* separated by blanks.
TokenInfos ==
    {[aud |-> GOOGLE_CLIENT_ID],
     [aud |-> GOOGLE_CLIENT_ID, token |-> "T1"],
     [aud |-> GOOGLE_CLIENT_ID, token |-> "T1",
      token_info |-> [scope |-> <<"openid", " ", "email">>]],
     [aud |-> GOOGLE_CLIENT_ID, token |-> "T2",
      token_info |-> [expires_in |-> "3599"]]}

KeyError(key) == [class |-> "KeyError", code |-> <<>>, message |-> <<"'", key, "'">>]

\* s.split() of a string of words.
SplitWords(s) == SelectSeq(s, LAMBDA w : w # " ")

\* The Credentials(...) construction at the head of every chat handler.
ChatCredentials(token_info) ==
    IF "token" \notin DOMAIN token_info
    THEN [raised |-> TRUE, exc |-> KeyError("token")]
    ELSE IF "token_info" \notin DOMAIN token_info
    THEN [raised |-> TRUE, exc |-> KeyError("token_info")]
    ELSE [raised |-> FALSE,
          value |-> [token |-> token_info.token,
                     token_uri |-> "https://oauth2.googleapis.com/token",
                     client_id |-> GOOGLE_CLIENT_ID,
                     client_secret |-> GOOGLE_CLIENT_SECRET,
                     scopes |-> SplitWords(
                         IF "scope" \in DOMAIN token_info.token_info
                         THEN token_info.token_info.scope
                         ELSE <<>>)]]

(***************************************************************************)
(* Token introspection                                                     *)
(***************************************************************************)

\* The httpx.RequestError exceptions of a call that cannot complete.
RequestErrors ==
    {[class |-> "ConnectError", code |-> <<>>,
      message |-> <<"c", "o", "n", "n", "e", "c", "t">>],
     [class |-> "ReadTimeout", code |-> <<>>,
      message |-> <<"t", "i", "m", "e", "o", "u", "t">>]}

\* The answers of the tokeninfo endpoint for a token: the call fails, or
\* completes with a status and a body, which is JSON claims or no JSON.
\* The endpoint answers 200 with claims of this application's audience for
\* this application's token only.
Introspections(token) ==
    {[completed |-> FALSE, exc |-> e] : e \in RequestErrors}
    \cup {[completed |-> TRUE, status_code |-> 503, json |-> Nothing],
          [completed |-> TRUE, status_code |-> 200, json |-> Nothing]}
    \cup (IF token = "T1"
          THEN {[completed |-> TRUE, status_code |-> 200, json |-> Some(claims)] :
                    claims \in TokenInfos}
          ELSE IF token = "foreign"
          THEN {[completed |-> TRUE, status_code |-> 200,
                 json |-> Some([aud |-> "other-client-id"])],
                [completed |-> TRUE, status_code |-> 200,
                 json |-> Some([expires_in |-> "3599"])]}
          ELSE {[completed |-> TRUE, status_code |-> 400,
                 json |-> Some([error |-> "invalid_token"])]})

JSONDecodeError ==
    [class |-> "JSONDecodeError", code |-> <<>>,
     message |-> <<"E", "x", "p", "e", "c", "t", "i", "n", "g", " ",
                   "v", "a", "l", "u", "e">>]

\* validate_token of auth.py without the test of the audience.
ValidateTokenAnyAudience(token, response) ==
    IF ~response.completed
    THEN [raised |-> TRUE,
          exc |-> HTTPException(401, [prefix |-> "Failed to validate token: ",
                                      cause |-> response.exc])]
    ELSE IF response.status_code # 200
    THEN [raised |-> TRUE, exc |-> HTTPException(401, "Invalid token")]
    ELSE IF response.json = Nothing
    THEN [raised |-> TRUE,
          exc |-> HTTPException(401, [prefix |-> "Authentication failed: ",
                                      cause |-> JSONDecodeError])]
    ELSE [raised |-> FALSE, value |-> response.json[1]]

\* validate_token of auth.py, the dependency of the chat routes: the claims
\* of the tokeninfo endpoint, or HTTPException(401).
ValidateToken(token, response) ==
    IF ~response.completed
    THEN [raised |-> TRUE,
          exc |-> HTTPException(401, [prefix |-> "Failed to validate token: ",
                                      cause |-> response.exc])]
    ELSE IF response.status_code # 200
    THEN [raised |-> TRUE, exc |-> HTTPException(401, "Invalid token")]
    ELSE IF response.json = Nothing
    THEN [raised |-> TRUE,
          exc |-> HTTPException(401, [prefix |-> "Authentication failed: ",
                                      cause |-> JSONDecodeError])]
    ELSE IF \/ "aud" \notin DOMAIN response.json[1]
            \/ response.json[1].aud # GOOGLE_CLIENT_ID
    THEN [raised |-> TRUE,
          exc |-> HTTPException(401, "Token was not issued for this application")]
    ELSE [raised |-> FALSE, value |-> response.json[1]]

\* verify_google_token of token_verification.py: the claims of the
\* tokeninfo endpoint, HTTPException(401), HTTPException(500) for a call
\* that cannot complete, or the error of a body that is no JSON.
VerifyGoogleToken(token, response) ==
    IF ~response.completed
    THEN [raised |-> TRUE,
          exc |-> HTTPException(500, "Failed to verify token with Google")]
    ELSE IF response.status_code # 200
    THEN [raised |-> TRUE, exc |-> HTTPException(401, "Invalid or expired token")]
    ELSE IF response.json = Nothing
    THEN [raised |-> TRUE, exc |-> JSONDecodeError]
    ELSE IF \/ "aud" \notin DOMAIN response.json[1]
            \/ response.json[1].aud # GOOGLE_CLIENT_ID
    THEN [raised |-> TRUE,
          exc |-> HTTPException(401, "Token was not issued for this application")]
    ELSE [raised |-> FALSE, value |-> response.json[1]]

\* validate_token applied to a token on its own.
validate_token ==
    /\ phase = "idle"
    /\ \E token \in BearerTokens :
       \E response \in Introspections(token) :
        /\ req' = [token |-> token, introspection |-> response]
        /\ envelope' = ValidateToken(token, response)
    /\ phase' = "done"
    /\ op' = "validate_token"
    /\ UNCHANGED <<rpcs, resp, reply, stream>>
    /\ UNCHANGED <<tasks, running>>

\* verify_google_token applied to a token on its own.
verify_google_token ==
    /\ phase = "idle"
    /\ \E token \in BearerTokens :
       \E response \in Introspections(token) :
        /\ req' = [token |-> token, introspection |-> response]
        /\ envelope' = VerifyGoogleToken(token, response)
    /\ phase' = "done"
    /\ op' = "verify_google_token"
    /\ UNCHANGED <<rpcs, resp, reply, stream>>
    /\ UNCHANGED <<tasks, running>>

\* A route that depends on validate_token: the answer of the dependency when
\* it raises, else the answer of the handler.
Depending(token_info, handled) ==
    IF token_info.raised THEN Raise(token_info.exc, <<>>) ELSE handled

\* The inputs recorded for a request to a chat route: the path and query
\* parameters, the token, the answer of the introspection, and the claims
\* the handler was given when the dependency returned them.
ChatInputs(params, token, response, token_info) ==
    params @@ [token |-> token, introspection |-> response]
    @@ (IF token_info.raised THEN <<>> ELSE [token_info |-> token_info.value])

(***************************************************************************)
(* Timestamps                                                              *)
(***************************************************************************)

Digits == <<"0", "1", "2", "3", "4", "5", "6", "7", "8", "9">>

\* n printed in decimal, zero-padded to width places.
RECURSIVE ZeroPadded(_, _)
ZeroPadded(n, width) ==
    IF width = 0 THEN <<>>
    ELSE ZeroPadded(n \div 10, width - 1) \o <<Digits[(n % 10) + 1]>>

\* datetime.isoformat() of a UTC timestamp, from its seconds on:
\* SS[.ffffff]+00:00.  The fraction is printed only when the microsecond is
\* not zero.  (The date, hour and minute before it are fixed-width fields
\* like the seconds.)
Isoformat(t) ==
    ZeroPadded(t.second, 2)
    \o (IF t.microsecond = 0 THEN <<>> ELSE <<".">> \o ZeroPadded(t.microsecond, 6))
    \o <<"+", "0", "0", ":", "0", "0">>

\* `t.isoformat() if t else None` of an optional timestamp.
OptionalIsoformat(t) == IF t # Nothing THEN Some(Isoformat(t[1])) ELSE Nothing

\* The timestamps of stored conversations and messages.
Timestamps ==
    {[second |-> 9, microsecond |-> 0],
     [second |-> 9, microsecond |-> 500000],
     [second |-> 10, microsecond |-> 0]}

(***************************************************************************)
(* GET /chat/conversations/{agent_name}                                    *)
(***************************************************************************)

\* The agent_name path parameters: p/a1, a1, q/a1, p/a, p/ and p/a2.
QueriedAgentNames ==
    {<<"p", "/", "a", "1">>, <<"a", "1">>, <<"q", "/", "a", "1">>,
     <<"p", "/", "a">>, <<"p", "/">>, <<"p", "/", "a", "2">>}

\* The associated-agent lists of stored conversations.
ConversationAgents ==
    {<<>>,
     << <<"p", "/", "a", "1">> >>,
     << <<"p", "/", "a", "2">> >>,
     << <<"p", "/", "a", "2">>, <<"p", "/", "a", "1">> >>,
     << <<"a", "1">> >>,
     << <<"p", "/", "b">> >>}

\* The stored conversations, but for their names.
StoredConversations ==
    [agents : ConversationAgents, create_time : {Nothing}, last_used_time : {Nothing}]
    \cup [agents : {<< <<"p", "/", "a", "1">> >>},
          create_time : {Some([second |-> 9, microsecond |-> 0])},
          last_used_time : {Nothing, Some([second |-> 10, microsecond |-> 0])}]

\* The most conversations a listing holds.
MaxConversations == 2

\* The listings the remote service may answer with: the i-th conversation
\* of a listing is named i.
ConversationListings ==
    UNION {[1..n -> StoredConversations] : n \in 0..MaxConversations}

Named(listing) ==
    [i \in 1..Len(listing) |->
        [name |-> i, agents |-> listing[i].agents,
         create_time |-> listing[i].create_time,
         last_used_time |-> listing[i].last_used_time]]

\* The answers of the remote list_conversations call.
ListConversationsOutcomes ==
    {[ok |-> TRUE, convos |-> Named(l)] : l \in ConversationListings}
    \cup {[ok |-> FALSE, exc |-> e] : e \in UpstreamErrors}

\* x in xs, for a list xs.
InList(x, xs) == \E i \in 1..Len(xs) : xs[i] = x

\* AgentConvos keeping the exact matches only.
RECURSIVE AgentConvosExactOnly(_, _)
AgentConvosExactOnly(agent_name, convos) ==
    IF convos = <<>> THEN <<>>
    ELSE LET c == Head(convos)
             rest == AgentConvosExactOnly(agent_name, Tail(convos))
         IN  IF c.agents # <<>> /\ InList(agent_name, c.agents)
             THEN <<c>> \o rest
             ELSE rest

\* The filter loop of list_conversations: the conversations of the listing
\* kept for agent_name.
RECURSIVE AgentConvos(_, _)
AgentConvos(agent_name, convos) ==
    IF convos = <<>> THEN <<>>
    ELSE LET c == Head(convos)
             rest == AgentConvos(agent_name, Tail(convos))
         IN  IF c.agents # <<>>
             THEN IF InList(agent_name, c.agents)
                  THEN <<c>> \o rest
                  ELSE IF \E i \in 1..Len(c.agents) :
                            Contains(Last(Split(agent_name, "/")), c.agents[i])
                  THEN <<c>> \o rest
                  ELSE rest
             ELSE rest

\* The dictionary built for a conversation of the response.
ConversationDict(convo) ==
    [name |-> convo.name,
     create_time |-> OptionalIsoformat(convo.create_time),
     last_used_time |-> OptionalIsoformat(convo.last_used_time),
     agents |-> convo.agents]

\* The try block of list_conversations.
ListConversationsTry(agent_name, token_info, outcome) ==
    LET creds == ChatCredentials(token_info)
        call == [rpc |-> "list_conversations",
                 credentials |-> creds.value,
                 parent |-> <<"projects/", PROJECT_ID, "/locations/global">>,
                 page_size |-> 100,
                 outcome |-> outcome]
        agent_convos == AgentConvos(agent_name, outcome.convos)
    IN  IF creds.raised THEN Raise(creds.exc, <<>>)
        ELSE IF ~outcome.ok THEN Raise(outcome.exc, <<call>>)
        ELSE Return([conversations |->
                        [i \in 1..Len(agent_convos) |->
                            ConversationDict(agent_convos[i])]],
                    <<call>>)

\* The test of list_conversations for a permission or not-found error.
IsPermissionOrNotFound(e) ==
    \/ Contains(<<"4", "0", "3">>, Str(e))
    \/ Contains(<<"4", "0", "4">>, Str(e))
    \/ Contains(<<"P", "E", "R", "M", "I", "S", "S", "I", "O", "N">>, Upper(Str(e)))

\* The except clauses of list_conversations.
ListConversationsExcept(result) ==
    IF ~result.raised THEN result
    ELSE IF IsGoogleAPICallError(result.exc)
    THEN IF IsPermissionOrNotFound(result.exc)
         THEN Return([conversations |-> <<>>], result.calls)
         ELSE Raise(HTTPException(500,
                        [prefix |-> "API error fetching conversations: ",
                         cause |-> result.exc]),
                    result.calls)
    ELSE Raise(HTTPException(500, [prefix |-> "Unexpected error: ",
                                   cause |-> result.exc]),
               result.calls)

\* GET /chat/conversations/{agent_name}
list_conversations ==
    /\ phase = "idle"
    /\ \E agent_name \in QueriedAgentNames, token \in BearerTokens,
          outcome \in ListConversationsOutcomes :
       \E response \in Introspections(token) :
        LET token_info == ValidateToken(token, response)
            result == Depending(token_info,
                ListConversationsExcept(
                    ListConversationsTry(agent_name, token_info.value, outcome)))
        IN  /\ phase' = "done"
            /\ op' = "list_conversations"
            /\ req' = ChatInputs([agent_name |-> agent_name], token, response,
                                 token_info)
            /\ rpcs' = result.calls
            /\ resp' = HttpResponse(result)
    /\ UNCHANGED <<reply, envelope, stream>>
    /\ UNCHANGED <<tasks, running>>

(***************************************************************************)
(* The response normalizer                                                 *)
(*                                                                         *)
(* A Python object is Nothing (None) or Some(r) for a record r of its      *)
(* attributes.  An attribute that holds None or an empty (falsy) message   *)
(* holds Nothing.                                                          *)
(***************************************************************************)

\* hasattr(obj, name)
HasAttr(obj, name) == obj # Nothing /\ name \in DOMAIN obj[1]

\* obj.name
Attr(obj, name) == obj[1][name]

\* hasattr(obj, name) and obj.name
Populated(obj, name) == HasAttr(obj, name) /\ Attr(obj, name) # Nothing

\* What a formatter hands back: a dictionary, or an exception.
Value(v) == [raised |-> FALSE, value |-> v]
Raised(exc) == [raised |-> TRUE, exc |-> exc]
AttributeError(name) ==
    [class |-> "AttributeError", code |-> <<>>, message |-> <<"no attribute ", name>>]

\* ''.join(parts)
RECURSIVE Join(_)
Join(parts) == IF parts = <<>> THEN "" ELSE Head(parts) \o Join(Tail(parts))

\* format_datasource
FormatDatasource(datasource) ==
    LET source_name ==
            IF HasAttr(datasource, "studio_datasource_id")
            THEN Attr(datasource, "studio_datasource_id")
            ELSE IF HasAttr(datasource, "looker_explore_reference")
            THEN LET ref == Attr(datasource, "looker_explore_reference")
                 IN  "lookmlModel: " \o ref.lookml_model \o ", explore: "
                     \o ref.explore \o ", lookerInstanceUri: "
                     \o ref.looker_instance_uri
            ELSE IF HasAttr(datasource, "bigquery_table_reference")
            THEN LET ref == Attr(datasource, "bigquery_table_reference")
                 IN  ref.project_id \o "." \o ref.dataset_id \o "." \o ref.table_id
            ELSE "Unknown"
        fields == Attr(Attr(datasource, "schema"), "fields")
    IN  [source_name |-> source_name]
        @@ (IF Populated(datasource, "schema")
            THEN [schema |-> [fields |->
                    [i \in 1..Len(fields) |->
                        [name |-> fields[i].name,
                         type |-> fields[i].type,
                         description |->
                            IF "description" \in DOMAIN fields[i]
                            THEN fields[i].description ELSE "-",
                         mode |-> fields[i].mode]]]]
            ELSE <<>>)

\* format_schema_response putting the question of a pending query at the top
\* level of the result.
FormatSchemaResponseFlatQuestion(schema_resp) ==
    [type |-> "schema"]
    @@ (IF Populated(schema_resp, "query")
        THEN [question |-> Attr(Attr(schema_resp, "query"), "question")]
        ELSE IF Populated(schema_resp, "result")
        THEN LET datasources == Attr(Attr(schema_resp, "result"), "datasources")
             IN  [status |-> "Schema resolved",
                  datasources |-> [i \in 1..Len(datasources) |->
                                      FormatDatasource(datasources[i])]]
        ELSE <<>>)

\* format_schema_response
FormatSchemaResponse(schema_resp) ==
    [type |-> "schema"]
    @@ (IF Populated(schema_resp, "query")
        THEN [query |-> [question |-> Attr(Attr(schema_resp, "query"), "question")]]
        ELSE IF Populated(schema_resp, "result")
        THEN LET datasources == Attr(Attr(schema_resp, "result"), "datasources")
             IN  [status |-> "Schema resolved",
                  datasources |-> [i \in 1..Len(datasources) |->
                                      FormatDatasource(datasources[i])]]
        ELSE <<>>)

\* row.get(field)
Get(row, field) == IF field \in DOMAIN row THEN row[field] ELSE None

\* The inner loop of format_data_response: the cells of one row appended to
\* the columns, field by field.
RECURSIVE AppendRow(_, _, _)
AppendRow(data, row, fields) ==
    IF fields = <<>> THEN data
    ELSE LET field == Head(fields)
             column == IF field \in DOMAIN data THEN data[field] ELSE <<>>
             appended == (field :> Append(column, Get(row, field))) @@ data
         IN  AppendRow(appended, row, Tail(fields))

\* The outer loop of format_data_response: the rows pivoted into columns.
RECURSIVE Columns(_, _, _)
Columns(data, rows, fields) ==
    IF rows = <<>> THEN data
    ELSE Columns(AppendRow(data, Head(rows), fields), Tail(rows), fields)

\* format_data_response
FormatDataResponse(data_resp) ==
    LET query == Attr(data_resp, "query")
        qds == Attr(query, "datasources")
        result == Attr(data_resp, "result")
        schema_fields == Attr(result, "schema").fields
        fields == [i \in 1..Len(schema_fields) |-> schema_fields[i].name]
    IN  (IF Populated(data_resp, "query")
         THEN [query |-> [name |-> Attr(query, "name"),
                          question |-> Attr(query, "question"),
                          datasources |-> [i \in 1..Len(qds) |->
                                              FormatDatasource(qds[i])]]]
         ELSE <<>>)
        @@ (IF HasAttr(data_resp, "generated_sql")
               /\ Attr(data_resp, "generated_sql") # ""
            THEN [generated_sql |-> Attr(data_resp, "generated_sql")]
            ELSE <<>>)
        @@ (IF Populated(data_resp, "result")
            THEN [data_retrieved |-> TRUE,
                  data |-> [fields |-> fields,
                            columns |-> Columns(<<>>, Attr(result, "data"), fields)]]
            ELSE <<>>)

\* process_chart: the Vega-Lite specification translated from the embedded
\* configuration, or None when the translation raises.
ProcessChart(vega_config) ==
    IF vega_config.well_formed
    THEN Some([schema |-> "https://vega.github.io/schema/vega-lite",
               mark |-> vega_config.mark])
    ELSE Nothing

\* format_chart_response storing whatever process_chart hands back, None
\* included, as the vega_config.
FormatChartResponseUnchecked(chart_resp) ==
    LET result == Attr(chart_resp, "result")
        chart_spec == ProcessChart(Attr(result, "vega_config"))
    IN  [type |-> "chart"]
        @@ (IF Populated(chart_resp, "query")
            THEN [instructions |-> Attr(Attr(chart_resp, "query"), "instructions")]
            ELSE <<>>)
        @@ (IF Populated(chart_resp, "result")
            THEN IF ~HasAttr(result, "vega_config")
                 THEN [error |-> "Error converting chart config: "
                                 \o "no attribute vega_config"]
                 ELSE [vega_config |-> chart_spec]
            ELSE <<>>)

\* format_chart_response
FormatChartResponse(chart_resp) ==
    LET result == Attr(chart_resp, "result")
        chart_spec == ProcessChart(Attr(result, "vega_config"))
    IN  [type |-> "chart"]
        @@ (IF Populated(chart_resp, "query")
            THEN [instructions |-> Attr(Attr(chart_resp, "query"), "instructions")]
            ELSE <<>>)
        @@ (IF Populated(chart_resp, "result")
            THEN IF ~HasAttr(result, "vega_config")
                 THEN [error |-> "Error converting chart config: "
                                 \o "no attribute vega_config"]
                 ELSE IF chart_spec # Nothing
                 THEN [vega_config |-> chart_spec[1]]
                 ELSE [error |-> "Failed to process chart specification"]
            ELSE <<>>)

\* format_system_message testing the chart variant before the data variant.
FormatSystemMessageChartFirst(system_message, timestamp) ==
    LET content ==
            IF Populated(system_message, "text")
            THEN [type |-> "text",
                  text |-> Join(IF HasAttr(Attr(system_message, "text"), "parts")
                                THEN Attr(Attr(system_message, "text"), "parts")
                                ELSE <<>>)]
            ELSE IF Populated(system_message, "schema")
            THEN [type |-> "schema"]
                 @@ FormatSchemaResponse(Attr(system_message, "schema"))
            ELSE IF Populated(system_message, "chart")
            THEN [type |-> "chart"]
                 @@ FormatChartResponse(Attr(system_message, "chart"))
            ELSE IF Populated(system_message, "data")
            THEN [type |-> "data"]
                 @@ FormatDataResponse(Attr(system_message, "data"))
            ELSE [type |-> "unknown", raw |-> system_message]
    IN  [type |-> "assistant",
         message_type |-> IF "type" \in DOMAIN content THEN content.type
                          ELSE "unknown",
         content |-> content,
         timestamp |-> OptionalIsoformat(timestamp)]

\* format_system_message
FormatSystemMessage(system_message, timestamp) ==
    LET content ==
            IF Populated(system_message, "text")
            THEN [type |-> "text",
                  text |-> Join(IF HasAttr(Attr(system_message, "text"), "parts")
                                THEN Attr(Attr(system_message, "text"), "parts")
                                ELSE <<>>)]
            ELSE IF Populated(system_message, "schema")
            THEN [type |-> "schema"]
                 @@ FormatSchemaResponse(Attr(system_message, "schema"))
            ELSE IF Populated(system_message, "data")
            THEN [type |-> "data"]
                 @@ FormatDataResponse(Attr(system_message, "data"))
            ELSE IF Populated(system_message, "chart")
            THEN [type |-> "chart"]
                 @@ FormatChartResponse(Attr(system_message, "chart"))
            ELSE [type |-> "unknown", raw |-> system_message]
    IN  [type |-> "assistant",
         message_type |-> IF "type" \in DOMAIN content THEN content.type
                          ELSE "unknown",
         content |-> content,
         timestamp |-> OptionalIsoformat(timestamp)]

\* format_message_response with the checks for a system message and for a
\* wrapped message before the check for a user message.
RECURSIVE FormatMessageResponseUserLast(_)
FormatMessageResponseUserLast(message) ==
    IF HasAttr(message, "system_message")
    THEN Value(FormatSystemMessage(
             Attr(message, "system_message"),
             IF HasAttr(message, "create_time") THEN Attr(message, "create_time")
             ELSE Nothing))
    ELSE IF HasAttr(message, "message")
    THEN FormatMessageResponseUserLast(Attr(message, "message"))
    ELSE IF Populated(message, "user_message")
    THEN IF ~HasAttr(Attr(message, "user_message"), "text")
         THEN Raised(AttributeError("text"))
         ELSE Value([type |-> "user",
                     content |-> [text |-> Attr(Attr(message, "user_message"), "text")],
                     timestamp |->
                        IF Populated(message, "create_time")
                        THEN Some(Isoformat(Attr(message, "create_time")[1]))
                        ELSE Nothing])
    ELSE Value([type |-> "unknown", content |-> [raw |-> message],
                timestamp |-> Nothing])

\* format_message_response: the envelope of a reply, or the exception raised
\* on the way.
RECURSIVE FormatMessageResponse(_)
FormatMessageResponse(message) ==
    IF Populated(message, "user_message")
    THEN IF ~HasAttr(Attr(message, "user_message"), "text")
         THEN Raised(AttributeError("text"))
         ELSE Value([type |-> "user",
                     content |-> [text |-> Attr(Attr(message, "user_message"), "text")],
                     timestamp |->
                        IF Populated(message, "create_time")
                        THEN Some(Isoformat(Attr(message, "create_time")[1]))
                        ELSE Nothing])
    ELSE IF HasAttr(message, "system_message")
    THEN Value(FormatSystemMessage(
             Attr(message, "system_message"),
             IF HasAttr(message, "create_time") THEN Attr(message, "create_time")
             ELSE Nothing))
    ELSE IF HasAttr(message, "message")
    THEN FormatMessageResponse(Attr(message, "message"))
    ELSE Value([type |-> "unknown", content |-> [raw |-> message],
                timestamp |-> Nothing])

\* The user messages, populated, of a reply.
UserMessages == {Some([text |-> "question"])}

\* The system messages, populated, of a reply.
SystemMessages ==
    {Some([text |-> Some([parts |-> <<"Hel", "lo">>])]),
     Some([text |-> Nothing, schema |-> Nothing, data |-> Nothing, chart |-> Nothing])}

\* The attribute name of an object, absent, empty or holding one of values.
Attribute(name, values) ==
    {<<>>} \cup {(name :> v) : v \in {Nothing} \cup values}

\* The deepest nesting of wrapped messages in a reply.
MaxDepth == 1

\* The replies of the conversational service: objects with any of the
\* attributes user_message, system_message, message and create_time, wrapping
\* replies to the given depth.
RECURSIVE Replies(_)
Replies(depth) ==
    {Some(u @@ sm @@ w @@ t) :
        u \in Attribute("user_message", UserMessages),
        sm \in Attribute("system_message", SystemMessages),
        w \in Attribute("message", IF depth = 0 THEN {} ELSE Replies(depth - 1)),
        t \in {<<>>, [create_time |-> Some([second |-> 9, microsecond |-> 0])]}}

\* format_message_response applied to a reply on its own.
format_message_response ==
    /\ phase = "idle"
    /\ \E message \in Replies(MaxDepth) \cup {Nothing} :
        /\ reply' = message
        /\ envelope' = FormatMessageResponse(message)
    /\ phase' = "done"
    /\ op' = "format_message_response"
    /\ UNCHANGED <<req, rpcs, resp, stream>>
    /\ UNCHANGED <<tasks, running>>

(***************************************************************************)
(* format_system_message on its own: the system messages of the            *)
(* conversational service, with their text, schema, data and chart         *)
(* variants.                                                               *)
(***************************************************************************)

\* The text variants: with parts, and without the parts attribute.
TextMessages ==
    {Some([parts |-> <<"Hel", "lo">>]), Some([language |-> "en"])}

\* The datasources a schema result or a data query names.
Datasources ==
    {Some([studio_datasource_id |-> "s1"]),
     Some([looker_explore_reference |->
              [lookml_model |-> "m1", explore |-> "e1", looker_instance_uri |-> "u1"]]),
     Some([bigquery_table_reference |->
              [project_id |-> "p1", dataset_id |-> "d1", table_id |-> "t1"],
           schema |-> Some([fields |->
              <<[name |-> "f1", type |-> "STRING", mode |-> "NULLABLE"],
                [name |-> "f2", type |-> "INT64", mode |-> "REQUIRED",
                 description |-> "count"]>>])]),
     Some([schema |-> Nothing])}

\* The most datasources a schema result names.
MaxDatasources == 2

\* The schema variants: a pending query, a resolved result, both, neither.
SchemaResponses ==
    {Some([query |-> Some([question |-> "q1"])]),
     Some([query |-> Some([question |-> "q1"]),
           result |-> Some([datasources |-> <<Some([studio_datasource_id |-> "s1"])>>])]),
     Some([query |-> Nothing, result |-> Nothing])}
    \cup {Some([query |-> Nothing, result |-> Some([datasources |-> ds])]) :
            ds \in UNION {[1..n -> Datasources] : n \in 0..MaxDatasources}}

\* The field list of a tabular result.
FieldLists == {<<[name |-> "f1"], [name |-> "f2"]>>}

\* The rows of a tabular result: each holds a cell for some of the fields.
Rows ==
    UNION {[fs -> {"x", "y"}] : fs \in SUBSET {"f1", "f2"}}

\* The most rows a tabular result holds.
MaxRows == 2

\* The tabular results.
TabularResults ==
    {Some([schema |-> [fields |-> fields], data |-> rows]) :
        fields \in FieldLists,
        rows \in UNION {[1..n -> Rows] : n \in 0..MaxRows}}

\* The data variants: with or without the query and the generated SQL, and
\* with a tabular result, an empty one, or none.
DataResponses ==
    {Some(q @@ [result |-> r]) :
        q \in {<<>>,
               [query |-> Some([name |-> "n1", question |-> "q1",
                                datasources |-> <<Some([studio_datasource_id |-> "s1"])>>]),
                generated_sql |-> "SELECT 1"],
               [query |-> Nothing, generated_sql |-> ""]},
        r \in TabularResults}
    \cup {Some([generated_sql |-> "SELECT 1"]),
          Some([generated_sql |-> "SELECT 1", result |-> Nothing])}

\* The embedded chart configurations: one Altair translates, one it rejects.
VegaConfigs ==
    {[well_formed |-> TRUE, mark |-> "bar"], [well_formed |-> FALSE, mark |-> "bar"]}

\* The chart variants: with or without instructions, and with a result
\* holding a configuration, a result without one, an empty result or none.
ChartResponses ==
    {Some(q @@ r) :
        q \in Attribute("query", {Some([instructions |-> "draw bars"])}),
        r \in Attribute("result", {Some([vega_config |-> c]) : c \in VegaConfigs}
                                    \cup {Some([title |-> "t1"])})}

\* The system messages: every combination of absent, empty and populated
\* variants, and every value of each variant on its own.
SystemMessageInputs ==
    {Some(t @@ sc @@ d @@ c) :
        t \in Attribute("text", {Some([parts |-> <<"Hel", "lo">>])}),
        sc \in Attribute("schema", {Some([query |-> Some([question |-> "q1"])])}),
        d \in Attribute("data", {Some([generated_sql |-> "SELECT 1"])}),
        c \in Attribute("chart", {Some([query |-> Some([instructions |-> "draw bars"])])})}
    \cup {Some([text |-> t]) : t \in TextMessages}
    \cup {Some([schema |-> sc]) : sc \in SchemaResponses}
    \cup {Some([data |-> d]) : d \in DataResponses}
    \cup {Some([chart |-> c]) : c \in ChartResponses}
    \cup {Nothing}

\* format_system_message applied to a system message on its own.
format_system_message ==
    /\ phase = "idle"
    /\ \E system_message \in SystemMessageInputs,
          timestamp \in {Nothing, Some([second |-> 9, microsecond |-> 0])} :
        /\ reply' = system_message
        /\ req' = [timestamp |-> timestamp]
        /\ envelope' = Value(FormatSystemMessage(system_message, timestamp))
    /\ phase' = "done"
    /\ op' = "format_system_message"
    /\ UNCHANGED <<rpcs, resp, stream>>
    /\ UNCHANGED <<tasks, running>>

(***************************************************************************)
(* GET /chat/conversations/{conversation_name}/messages                    *)
(***************************************************************************)

\* The code point of a character of a timestamp.
Ord(c) ==
    CASE c = "+" -> 43
      [] c = "." -> 46
      [] c = ":" -> 58
      [] OTHER -> 48 + (CHOOSE d \in 0..9 : Digits[d + 1] = c)

\* a < b for two strings, as Python orders them: by code point, a proper
\* prefix first.
StrLess(a, b) ==
    \E k \in 1..Len(b) :
        /\ \A i \in 1..(k - 1) : i <= Len(a) /\ a[i] = b[i]
        /\ k > Len(a) \/ (k <= Len(a) /\ Ord(a[k]) < Ord(b[k]))

\* The sort key of get_messages: x.get('timestamp') or ''
SortKey(x) ==
    IF "timestamp" \in DOMAIN x /\ x.timestamp # Nothing /\ x.timestamp[1] # <<>>
    THEN x.timestamp[1]
    ELSE <<>>

\* One element placed into a sorted list, behind the elements whose key is
\* not greater.
RECURSIVE Insert(_, _)
Insert(sorted, x) ==
    IF sorted = <<>> THEN <<x>>
    ELSE IF StrLess(SortKey(x), SortKey(Head(sorted)))
    THEN <<x>> \o sorted
    ELSE <<Head(sorted)>> \o Insert(Tail(sorted), x)

\* SortMessages leaving the messages in the order of arrival.
SortMessagesUnsorted(messages) == messages

\* messages.sort(key=..., reverse=False): a stable ascending sort.
RECURSIVE SortMessages(_)
SortMessages(messages) ==
    IF messages = <<>> THEN <<>>
    ELSE Insert(SortMessages(SubSeq(messages, 1, Len(messages) - 1)),
                messages[Len(messages)])

\* The stored messages of a conversation: user and system messages with and
\* without a creation time, a system message without the create_time
\* attribute, an object that is no message, and a user message without its
\* text, which format_message_response cannot render.
StoredMessages ==
    {Some([user_message |-> Some([text |-> "question"]),
           system_message |-> Nothing, create_time |-> t]) :
        t \in {Nothing} \cup {Some(ts) : ts \in Timestamps}}
    \cup {Some([user_message |-> Nothing,
                system_message |-> Some([text |-> Some([parts |-> <<"Hel", "lo">>])]),
                create_time |-> t]) :
        t \in {Some([second |-> 9, microsecond |-> 0]),
               Some([second |-> 10, microsecond |-> 0])}}
    \cup {Some([system_message |-> Some([text |-> Some([parts |-> <<"Hel", "lo">>])])]),
          Some([message_id |-> "m"]),
          Some([user_message |-> Some([content |-> "question"]),
                system_message |-> Nothing,
                create_time |-> Some([second |-> 9, microsecond |-> 0])])}

\* The items list_messages yields: a stored message in its wrapper, or an
\* item without the message attribute.
StoredMessageWrappers ==
    {Some([message_id |-> "m", message |-> m]) : m \in StoredMessages}
    \cup {Some([message_id |-> "m"])}

\* The most messages a conversation holds.
MaxMessages == 3

\* The answers of the remote list_messages call.
ListMessagesOutcomes ==
    {[ok |-> TRUE, msgs |-> l] :
        l \in UNION {[1..n -> StoredMessageWrappers] : n \in 0..MaxMessages}}
    \cup {[ok |-> FALSE, exc |-> e] : e \in UpstreamErrors}

\* The body of the conversion loop of get_messages for one item.
FormatWrapped(msg_wrapper) ==
    IF ~HasAttr(msg_wrapper, "message")
    THEN Raised(AttributeError("message"))
    ELSE FormatMessageResponse(Attr(msg_wrapper, "message"))

\* FormattedMessages leaving the loop at the first item that raises.
RECURSIVE FormattedMessagesBreak(_)
FormattedMessagesBreak(msgs) ==
    IF msgs = <<>> THEN <<>>
    ELSE LET formatted_msg == FormatWrapped(Head(msgs))
         IN  IF formatted_msg.raised
             THEN <<>>
             ELSE <<formatted_msg.value>> \o FormattedMessagesBreak(Tail(msgs))

\* The conversion loop of get_messages: an item that raises is skipped.
RECURSIVE FormattedMessages(_)
FormattedMessages(msgs) ==
    IF msgs = <<>> THEN <<>>
    ELSE LET formatted_msg == FormatWrapped(Head(msgs))
         IN  IF formatted_msg.raised
             THEN FormattedMessages(Tail(msgs))
             ELSE <<formatted_msg.value>> \o FormattedMessages(Tail(msgs))

\* The conversation_name path parameters.
ConversationNames == {"conversations/c1"}

\* The try block of get_messages.
GetMessagesTry(conversation_name, token_info, outcome) ==
    LET creds == ChatCredentials(token_info)
        call == [rpc |-> "list_messages",
                 credentials |-> creds.value,
                 parent |-> conversation_name,
                 outcome |-> outcome]
    IN  IF creds.raised THEN Raise(creds.exc, <<>>)
        ELSE IF ~outcome.ok THEN Raise(outcome.exc, <<call>>)
        ELSE Return([messages |-> SortMessages(FormattedMessages(outcome.msgs))],
                    <<call>>)

\* The except clauses of the chat handlers other than list_conversations.
ChatExcept(result, what) ==
    IF ~result.raised THEN result
    ELSE IF IsGoogleAPICallError(result.exc)
    THEN Raise(HTTPException(500, [prefix |-> what, cause |-> result.exc]),
               result.calls)
    ELSE Raise(HTTPException(500, [prefix |-> "Unexpected error: ",
                                   cause |-> result.exc]),
               result.calls)

\* GET /chat/conversations/{conversation_name}/messages
get_messages ==
    /\ phase = "idle"
    /\ \E conversation_name \in ConversationNames, token \in BearerTokens,
          outcome \in ListMessagesOutcomes :
       \E response \in Introspections(token) :
        LET token_info == ValidateToken(token, response)
            result == Depending(token_info,
                ChatExcept(
                    GetMessagesTry(conversation_name, token_info.value, outcome),
                    "API error fetching messages: "))
        IN  /\ phase' = "done"
            /\ op' = "get_messages"
            /\ req' = ChatInputs([conversation_name |-> conversation_name],
                                 token, response, token_info)
            /\ rpcs' = result.calls
            /\ resp' = HttpResponse(result)
    /\ UNCHANGED <<reply, envelope, stream>>
    /\ UNCHANGED <<tasks, running>>

(***************************************************************************)
(* POST /chat/conversations                                                *)
(***************************************************************************)

\* The answers of the remote create_conversation call for an agent.
CreateConversationOutcomes(agent_name) ==
    {[ok |-> TRUE,
      convo |-> [name |-> 1, agents |-> <<agent_name>>,
                 create_time |-> Some([second |-> 9, microsecond |-> 0]),
                 last_used_time |-> t]] :
        t \in {Nothing, Some([second |-> 9, microsecond |-> 0])}}
    \cup {[ok |-> FALSE, exc |-> e] : e \in UpstreamErrors}

\* The try block of create_conversation.
CreateConversationTry(agent_name, token_info, outcome) ==
    LET creds == ChatCredentials(token_info)
        call == [rpc |-> "create_conversation",
                 credentials |-> creds.value,
                 parent |-> <<"projects/", PROJECT_ID, "/locations/global">>,
                 conversation |-> [agents |-> <<agent_name>>],
                 outcome |-> outcome]
    IN  IF creds.raised THEN Raise(creds.exc, <<>>)
        ELSE IF ~outcome.ok THEN Raise(outcome.exc, <<call>>)
        ELSE Return([conversation |-> ConversationDict(outcome.convo)], <<call>>)

\* POST /chat/conversations
create_conversation ==
    /\ phase = "idle"
    /\ \E agent_name \in QueriedAgentNames, token \in BearerTokens :
       \E response \in Introspections(token),
          outcome \in CreateConversationOutcomes(agent_name) :
        LET token_info == ValidateToken(token, response)
            result == Depending(token_info,
                ChatExcept(
                    CreateConversationTry(agent_name, token_info.value, outcome),
                    "API error creating conversation: "))
        IN  /\ phase' = "done"
            /\ op' = "create_conversation"
            /\ req' = ChatInputs([agent_name |-> agent_name], token, response,
                                 token_info)
            /\ rpcs' = result.calls
            /\ resp' = HttpResponse(result)
    /\ UNCHANGED <<reply, envelope, stream>>
    /\ UNCHANGED <<tasks, running>>

(***************************************************************************)
(* The OAuth callbacks: GET /auth/callback and POST /auth/google/callback  *)
(***************************************************************************)

\* The code and error parameters of a callback: left out, empty, or given.
CallbackCodes == {None, "", "c1"}
CallbackErrors == {None, "", "access_denied"}

\* The value of os.getenv("FRONTEND_URL", ...).
FRONTEND_URL == "http://localhost:3000"

\* RedirectResponse(url=...)
RedirectResponse(url) == [status |-> 307, location |-> url]

\* GET /auth/callback
google_callback_get ==
    /\ phase = "idle"
    /\ \E code \in CallbackCodes, error \in CallbackErrors :
        /\ req' = [code |-> code, error |-> error]
        /\ resp' = IF Truthy(error)
                   THEN RedirectResponse(<<FRONTEND_URL, "/?error=", error>>)
                   ELSE IF ~Truthy(code)
                   THEN HttpResponse(Raise(
                            HTTPException(400, "Authorization code is required"), <<>>))
                   ELSE RedirectResponse(<<FRONTEND_URL, "/?code=", code>>)
    /\ phase' = "done"
    /\ op' = "google_callback_get"
    /\ rpcs' = <<>>
    /\ UNCHANGED <<reply, envelope, stream>>
    /\ UNCHANGED <<tasks, running>>

\* The value of os.getenv("REDIRECT_URI", ...).
REDIRECT_URI == "https://conv-api-vercel-backend.vercel.app/api/auth/callback"

GetAccessTokenError ==
    [class |-> "GetAccessTokenError", code |-> <<>>,
     message |-> <<"i", "n", "v", "a", "l", "i", "d", "_", "g", "r", "a", "n", "t">>]

\* The answers of the identity provider to the exchange of a code: a token,
\* an empty answer, a refusal, or the call failing.
ExchangeOutcomes ==
    {[ok |-> TRUE, token |-> Some([access_token |-> "T1"])],
     [ok |-> TRUE, token |-> Nothing],
     [ok |-> FALSE, exc |-> GetAccessTokenError]}
    \cup {[ok |-> FALSE, exc |-> e] : e \in RequestErrors}

\* The try block of google_callback_post.
GoogleCallbackPostTry(data, outcome) ==
    LET code == IF "code" \in DOMAIN data THEN data.code ELSE None
        error == IF "error" \in DOMAIN data THEN data.error ELSE None
        call == [rpc |-> "get_access_token", code |-> code,
                 redirect_uri |-> REDIRECT_URI, outcome |-> outcome]
    IN  IF Truthy(error)
        THEN Raise(HTTPException(400, <<"OAuth error: ", error>>), <<>>)
        ELSE IF ~Truthy(code)
        THEN Raise(HTTPException(400, "Authorization code is required"), <<>>)
        ELSE IF ~outcome.ok THEN Raise(outcome.exc, <<call>>)
        ELSE IF outcome.token = Nothing
        THEN Raise(HTTPException(400, "Failed to get access token"), <<call>>)
        ELSE Return([access_token |-> outcome.token[1].access_token,
                     token_type |-> "Bearer", expires_in |-> 3600], <<call>>)

\* The except clauses of google_callback_post; the second catches
\* HTTPException with every other exception.
GoogleCallbackPostExcept(result) ==
    IF ~result.raised THEN result
    ELSE IF result.exc.class = "GetAccessTokenError"
    THEN Raise(HTTPException(401, "Failed to get access token"), result.calls)
    ELSE Raise(HTTPException(500, [prefix |-> "", cause |-> result.exc]),
               result.calls)

\* The JSON bodies of POST /auth/google/callback.
CallbackBodies ==
    {<<>>}
    \cup {[code |-> c] : c \in CallbackCodes}
    \cup {[error |-> e] : e \in CallbackErrors}
    \cup {[code |-> c, error |-> e] : c \in CallbackCodes, e \in CallbackErrors}

\* POST /auth/google/callback
google_callback_post ==
    /\ phase = "idle"
    /\ \E data \in CallbackBodies, outcome \in ExchangeOutcomes :
        LET result == GoogleCallbackPostExcept(GoogleCallbackPostTry(data, outcome))
        IN  /\ req' = [data |-> data]
            /\ rpcs' = result.calls
            /\ resp' = HttpResponse(result)
    /\ phase' = "done"
    /\ op' = "google_callback_post"
    /\ UNCHANGED <<reply, envelope, stream>>
    /\ UNCHANGED <<tasks, running>>

(***************************************************************************)
(* GET /agents                                                             *)
(***************************************************************************)

\* The agents list_data_agents yields.  _pb holds the dictionary
\* MessageToDict makes of the agent; the third agent has no _pb, so that its
\* conversion raises.
ListedAgents ==
    {Some(("_pb" :> [name |-> "agents/a1", displayName |-> "dn0",
                     createTime |-> "2024-01-01T00:00:09Z",
                     updateTime |-> "2024-01-01T00:00:10Z",
                     dataAnalyticsAgent |->
                        [publishedContext |->
                            [systemInstruction |-> "si0",
                             datasourceReferences |-> [bq |-> "p0.d0.t0"]]]])
          @@ [create_time |-> Some([second |-> 9, microsecond |-> 0]),
              update_time |-> Some([second |-> 10, microsecond |-> 0])]),
     Some(("_pb" :> [name |-> "agents/a2"])
          @@ [create_time |-> Nothing, update_time |-> Nothing]),
     Some([name |-> "agents/a3"]),
     Some(("_pb" :> [name |-> "agents/a4", createTime |-> "2024-01-01T00:00:09Z",
                     dataAnalyticsAgent |-> [stagingContext |-> "none"]])
          @@ [create_time |-> Some([second |-> 9, microsecond |-> 500000]),
              update_time |-> Nothing])}

\* The most agents a project holds.
MaxAgents == 2

\* The answers of the remote list_data_agents call.
ListAgentsOutcomes ==
    {[ok |-> TRUE, agents |-> l] :
        l \in UNION {[1..n -> ListedAgents] : n \in 0..MaxAgents}}
    \cup {[ok |-> FALSE, exc |-> e] : e \in UpstreamErrors}

\* The body of the conversion loop of list_agents for one agent.
AgentDict(agent) ==
    IF ~HasAttr(agent, "_pb")
    THEN Raised(AttributeError("_pb"))
    ELSE LET agent_dict == Attr(agent, "_pb")
             data_analytics_agent ==
                IF "dataAnalyticsAgent" \in DOMAIN agent_dict
                THEN agent_dict.dataAnalyticsAgent ELSE <<>>
             published_context ==
                IF "publishedContext" \in DOMAIN data_analytics_agent
                THEN data_analytics_agent.publishedContext ELSE <<>>
         IN  IF \/ ("createTime" \in DOMAIN agent_dict /\ agent_dict.createTime # ""
                    /\ ~Populated(agent, "create_time"))
                \/ ("updateTime" \in DOMAIN agent_dict /\ agent_dict.updateTime # ""
                    /\ ~Populated(agent, "update_time"))
             THEN Raised(AttributeError("isoformat"))
             ELSE Value(
                [create_time |->
                    IF "createTime" \in DOMAIN agent_dict /\ agent_dict.createTime # ""
                    THEN Some(Isoformat(Attr(agent, "create_time")[1]))
                    ELSE Nothing,
                 update_time |->
                    IF "updateTime" \in DOMAIN agent_dict /\ agent_dict.updateTime # ""
                    THEN Some(Isoformat(Attr(agent, "update_time")[1]))
                    ELSE Nothing,
                 system_instruction |->
                    IF "systemInstruction" \in DOMAIN published_context
                    THEN published_context.systemInstruction ELSE None,
                 datasource_references |->
                    IF "datasourceReferences" \in DOMAIN published_context
                    THEN Some(published_context.datasourceReferences) ELSE Nothing]
                @@ agent_dict)

\* The conversion loop of list_agents: an agent whose conversion raises is
\* logged and left out.
RECURSIVE AgentDicts(_)
AgentDicts(agents) ==
    IF agents = <<>> THEN <<>>
    ELSE LET agent_dict == AgentDict(Head(agents))
         IN  IF agent_dict.raised
             THEN AgentDicts(Tail(agents))
             ELSE <<agent_dict.value>> \o AgentDicts(Tail(agents))

\* The try block of list_agents.
ListAgentsTry(creds, outcome) ==
    LET call == [rpc |-> "list_data_agents",
                 credentials |-> creds,
                 parent |-> <<"projects/", PROJECT_ID, "/locations/global">>,
                 outcome |-> outcome]
    IN  IF ~outcome.ok THEN Raise(outcome.exc, <<call>>)
        ELSE Return([agents |-> AgentDicts(outcome.agents)], <<call>>)

\* GET /agents
list_agents ==
    /\ phase = "idle"
    /\ \E token \in BearerTokens :
       \E outcome \in AnswersFor(token, ListAgentsOutcomes) :
        LET result == AgentExcept(ListAgentsTry(GetCredentials(token), outcome),
                                  "API error fetching agents: ")
        IN  /\ phase' = "done"
            /\ op' = "list_agents"
            /\ req' = [token |-> token]
            /\ rpcs' = result.calls
            /\ resp' = HttpResponse(result)
    /\ UNCHANGED <<reply, envelope, stream>>
    /\ UNCHANGED <<tasks, running>>

(***************************************************************************)
(* DELETE /agents/projects/{project_id}/locations/{location}/dataAgents/   *)
(* {agent_id}                                                              *)
(***************************************************************************)

\* The answers of delete_data_agent.
DeleteOutcomes ==
    {[ok |-> TRUE]} \cup {[ok |-> FALSE, exc |-> e] : e \in AgentServiceErrors}

\* The try block of delete_agent.
DeleteAgentTry(creds, agent_name, outcome) ==
    LET call == [rpc |-> "delete_data_agent", credentials |-> creds,
                 name |-> agent_name, outcome |-> outcome]
    IN  IF ~outcome.ok THEN Raise(outcome.exc, <<call>>)
        ELSE Return([message |-> "Agent successfully deleted"], <<call>>)

\* DELETE /agents/projects/{project_id}/locations/{location}/dataAgents/{agent_id}
delete_agent ==
    /\ phase = "idle"
    /\ \E token \in BearerTokens, project_id \in {PROJECT_ID, "other"},
          location \in {"global"}, agent_id \in AgentIds :
       \E outcome \in AnswersFor(token, DeleteOutcomes) :
        LET agent_name == <<"projects/", project_id, "/locations/", location,
                            "/dataAgents/", agent_id>>
            result == AgentExcept(DeleteAgentTry(GetCredentials(token), agent_name,
                                                 outcome),
                                  "API error deleting agent: ")
        IN  /\ phase' = "done"
            /\ op' = "delete_agent"
            /\ req' = [token |-> token, project_id |-> project_id,
                       location |-> location, agent_id |-> agent_id]
            /\ rpcs' = result.calls
            /\ resp' = HttpResponse(result)
    /\ UNCHANGED <<reply, envelope, stream>>
    /\ UNCHANGED <<tasks, running>>

(***************************************************************************)
(* POST /chat/conversations/{conversation_name}/messages                   *)
(*                                                                         *)
(* send_message hands the framework a StreamingResponse over the           *)
(* generator chat_stream.  The generator runs when the transport resumes   *)
(* it, from one suspension (a yield, or the await of asyncio.sleep(0)) to   *)
(* the next; its remote calls are blocking calls and suspend nothing.      *)
(***************************************************************************)

LOOKER_CLIENT_ID == "looker-client-id"
LOOKER_CLIENT_SECRET == "looker-client-secret"

\* The texts of a MessageRequest.
MessageTexts == {"question"}

\* The agent_name query parameters: an agent, or None when left out.
ChatAgentNames == AgentNames \cup {None}

\* The answers of get_data_agent to chat_stream: no agent is named None.
ChatGetOutcomes(agent_name) ==
    IF agent_name = None
    THEN {[ok |-> FALSE, exc |-> e] : e \in AgentServiceErrors}
    ELSE GetOutcomes(agent_name)

\* The reply chunks of the chat call: a user message, a text, a wrapped
\* text, and a user message without its text, which cannot be formatted.
Chunks ==
    {Some([user_message |-> Some([text |-> "question"]), system_message |-> Nothing,
           create_time |-> Some([second |-> 9, microsecond |-> 0])]),
     Some([system_message |-> Some([text |-> Some([parts |-> <<"Hel", "lo">>])])]),
     Some([message |-> Some([system_message |->
                                Some([text |-> Some([parts |-> <<"Hel", "lo">>])])])]),
     Some([user_message |-> Some([content |-> "question"]), system_message |-> Nothing,
           create_time |-> Some([second |-> 9, microsecond |-> 0])])}

\* The most chunks a chat reply holds.
MaxChunks == 2

\* The errors that break a chat reply off after its last chunk.
BreakErrors ==
    {e \in UpstreamErrors : e.message \in {<<"b", "o", "o", "m">>,
                                           <<"r", "e", "s", "e", "t", " ", "4", "0", "3">>}}

\* The answers of the streaming chat call: the call is refused, or yields
\* chunks and then ends or breaks off with an error.
ChatOutcomes ==
    {[ok |-> FALSE, exc |-> e] : e \in UpstreamErrors}
    \cup {[ok |-> TRUE, chunks |-> cs, broken |-> b] :
            cs \in UNION {[1..n -> Chunks] : n \in 0..MaxChunks},
            b \in {Nothing} \cup {Some(e) : e \in BreakErrors}}

\* is_looker_agent testing the BigQuery reference.
IsLookerAgentTestsBigQuery(agent) ==
    "bq" \in agent.data_analytics_agent.published_context.datasource_references.kinds

\* is_looker_agent
IsLookerAgent(agent) ==
    "looker" \in agent.data_analytics_agent.published_context.datasource_references.kinds

\* The ChatRequest chat_stream builds.
ChatRequest(conversation_name, agent_name, text, agent) ==
    [parent |-> <<"projects/", PROJECT_ID, "/locations/global">>,
     messages |-> <<[user_message |-> [text |-> text]]>>,
     conversation_reference |->
        [conversation |-> conversation_name,
         data_agent_context |->
            [data_agent |-> agent_name]
            @@ (IF IsLookerAgent(agent)
                THEN [credentials |->
                        [oauth |-> [secret |->
                            [client_id |-> LOOKER_CLIENT_ID,
                             client_secret |-> LOOKER_CLIENT_SECRET]]]]
                ELSE <<>>)]]

\* json.dumps(obj) + "\n"
JsonLine(obj) == <<[json |-> obj], "\n">>

\* The line of the except clause of chat_stream.
ErrorLine(e) == JsonLine([error |-> Str(e)])

\* chat_stream with an agent lookup that may fail: the failure is caught on
\* the spot, the agent counts as no Looker agent, and the chat call follows.
ChatStreamBeginLookupOptional(conversation_name, agent_name, text, token_info, getOutcome, chatOutcome) ==
    LET creds == ChatCredentials(token_info)
        get == [rpc |-> "get_data_agent", credentials |-> creds.value,
                name |-> agent_name, outcome |-> getOutcome]
        agent == IF getOutcome.ok THEN getOutcome.agent
                 ELSE [data_analytics_agent |->
                          [published_context |->
                              [datasource_references |-> DatasourceReferences]]]
        chat == [rpc |-> "chat", credentials |-> creds.value,
                 request |-> ChatRequest(conversation_name, agent_name, text, agent),
                 outcome |-> chatOutcome]
    IN  IF creds.raised THEN Raise(creds.exc, <<>>)
        ELSE IF ~chatOutcome.ok THEN Raise(chatOutcome.exc, <<get, chat>>)
        ELSE Return(None, <<get, chat>>)

\* chat_stream from its start to the chat call: the credentials, the agent
\* lookup, the request, the call.
ChatStreamBegin(conversation_name, agent_name, text, token_info, getOutcome, chatOutcome) ==
    LET creds == ChatCredentials(token_info)
        get == [rpc |-> "get_data_agent", credentials |-> creds.value,
                name |-> agent_name, outcome |-> getOutcome]
        chat == [rpc |-> "chat", credentials |-> creds.value,
                 request |-> ChatRequest(conversation_name, agent_name, text,
                                         getOutcome.agent),
                 outcome |-> chatOutcome]
    IN  IF creds.raised THEN Raise(creds.exc, <<>>)
        ELSE IF ~getOutcome.ok THEN Raise(getOutcome.exc, <<get>>)
        ELSE IF ~chatOutcome.ok THEN Raise(chatOutcome.exc, <<get, chat>>)
        ELSE Return(None, <<get, chat>>)

\* The loop of chat_stream with the except clause inside the loop: after the
\* error line of a chunk that cannot be formatted the loop carries on.
ChatStreamNextCarriesOn(st, chatOutcome) ==
    IF st.k < Len(chatOutcome.chunks)
    THEN LET formatted_msg == FormatMessageResponse(chatOutcome.chunks[st.k + 1])
         IN  IF formatted_msg.raised
             THEN [pc |-> "yielded", k |-> st.k + 1,
                   lines |-> Append(st.lines, ErrorLine(formatted_msg.exc))]
             ELSE [pc |-> "yielded", k |-> st.k + 1,
                   lines |-> Append(st.lines, JsonLine(formatted_msg.value))]
    ELSE IF chatOutcome.broken # Nothing
    THEN [pc |-> "error_yielded", k |-> st.k,
          lines |-> Append(st.lines, ErrorLine(chatOutcome.broken[1]))]
    ELSE [pc |-> "closed", k |-> st.k, lines |-> st.lines]

\* The loop of chat_stream resumed and run to its next yield: the next chunk
\* is formatted and emitted as a line; a chunk that cannot be formatted, or
\* the reply breaking off, leads to the except clause and its error line;
\* the end of the reply ends the generator.
ChatStreamNext(st, chatOutcome) ==
    IF st.k < Len(chatOutcome.chunks)
    THEN LET formatted_msg == FormatMessageResponse(chatOutcome.chunks[st.k + 1])
         IN  IF formatted_msg.raised
             THEN [pc |-> "error_yielded", k |-> st.k + 1,
                   lines |-> Append(st.lines, ErrorLine(formatted_msg.exc))]
             ELSE [pc |-> "yielded", k |-> st.k + 1,
                   lines |-> Append(st.lines, JsonLine(formatted_msg.value))]
    ELSE IF chatOutcome.broken # Nothing
    THEN [pc |-> "error_yielded", k |-> st.k,
          lines |-> Append(st.lines, ErrorLine(chatOutcome.broken[1]))]
    ELSE [pc |-> "closed", k |-> st.k, lines |-> st.lines]

\* The conversation_name path parameters of send_message.
ChatConversationNames == {"conversations/c1"}

\* POST /chat/conversations/{conversation_name}/messages: the handler
\* answers with the stream before chat_stream has run.
send_message ==
    /\ phase = "idle"
    /\ \E conversation_name \in ChatConversationNames, agent_name \in ChatAgentNames,
          text \in MessageTexts, token \in BearerTokens :
       \E response \in Introspections(token) :
        LET token_info == ValidateToken(token, response)
        IN  /\ req' = ChatInputs([conversation_name |-> conversation_name,
                                  agent_name |-> agent_name,
                                  message_req |-> [text |-> text]],
                                 token, response, token_info)
            /\ IF token_info.raised
               THEN /\ phase' = "done"
                    /\ resp' = HttpResponse(Raise(token_info.exc, <<>>))
                    /\ stream' = stream
               ELSE /\ phase' = "streaming"
                    /\ resp' = [status |-> 200,
                                body |-> [media_type |-> "text/event-stream"]]
                    /\ stream' = [pc |-> "start", k |-> 0, lines |-> <<>>]
    /\ op' = "send_message"
    /\ rpcs' = <<>>
    /\ UNCHANGED <<reply, envelope>>
    /\ UNCHANGED <<tasks, running>>

\* chat_stream resumed for the first time: it runs to its first yield, or
\* to its end.
chat_stream_start ==
    /\ phase = "streaming" /\ stream.pc = "start"
    /\ \E getOutcome \in ChatGetOutcomes(req.agent_name), chatOutcome \in ChatOutcomes :
        LET begun == ChatStreamBegin(req.conversation_name, req.agent_name,
                                     req.message_req.text, req.token_info,
                                     getOutcome, chatOutcome)
        IN  /\ rpcs' = begun.calls
            /\ stream' = IF begun.raised
                         THEN [pc |-> "error_yielded", k |-> 0,
                               lines |-> <<ErrorLine(begun.exc)>>]
                         ELSE ChatStreamNext(stream, chatOutcome)
    /\ phase' = IF stream'.pc = "closed" THEN "done" ELSE "streaming"
    /\ UNCHANGED <<op, req, resp, reply, envelope>>
    /\ UNCHANGED <<tasks, running>>

\* chat_stream resumed at the yield of a line: it runs to the await of
\* asyncio.sleep(0).
chat_stream_sleep ==
    /\ phase = "streaming" /\ stream.pc = "yielded"
    /\ stream' = [stream EXCEPT !.pc = "sleeping"]
    /\ UNCHANGED <<phase, op, req, rpcs, resp, reply, envelope>>
    /\ UNCHANGED <<tasks, running>>

\* chat_stream resumed after asyncio.sleep(0): it takes the next chunk.
chat_stream_next ==
    /\ phase = "streaming" /\ stream.pc = "sleeping"
    /\ stream' = ChatStreamNext(stream, rpcs[2].outcome)
    /\ phase' = IF stream'.pc = "closed" THEN "done" ELSE "streaming"
    /\ UNCHANGED <<op, req, rpcs, resp, reply, envelope>>
    /\ UNCHANGED <<tasks, running>>

\* chat_stream resumed at the yield of the error line: the except clause
\* and the generator end.
chat_stream_end ==
    /\ phase = "streaming" /\ stream.pc = "error_yielded"
    /\ stream' = [stream EXCEPT !.pc = "closed"]
    /\ phase' = "done"
    /\ UNCHANGED <<op, req, rpcs, resp, reply, envelope>>
    /\ UNCHANGED <<tasks, running>>


\* The framework has sent the response; the server waits for the next request.
Respond ==
    /\ phase = "done"
    /\ phase' = "idle"
    /\ op' = "none"
    /\ req' = [none |-> TRUE]
    /\ rpcs' = <<>>
    /\ resp' = [status |-> 0]
    /\ reply' = <<>>
    /\ envelope' = [type |-> "none"]
    /\ stream' = [pc |-> "none"]
    /\ UNCHANGED <<tasks, running>>

Init ==
    /\ phase = "idle"
    /\ op = "none"
    /\ req = [none |-> TRUE]
    /\ rpcs = <<>>
    /\ resp = [status |-> 0]
    /\ reply = <<>>
    /\ envelope = [type |-> "none"]
    /\ stream = [pc |-> "none"]
    /\ tasks = <<>>
    /\ running = 0

Next ==
    \/ create_agent
    \/ update_agent
    \/ validate_token
    \/ verify_google_token
    \/ list_conversations
    \/ format_message_response
    \/ format_system_message
    \/ get_messages
    \/ create_conversation
    \/ google_callback_get
    \/ google_callback_post
    \/ list_agents
    \/ delete_agent
    \/ send_message
    \/ chat_stream_start
    \/ chat_stream_sleep
    \/ chat_stream_next
    \/ chat_stream_end
    \/ Respond

Spec == Init /\ [][Next]_vars

(***************************************************************************)
(* Requests served concurrently                                            *)
(*                                                                         *)
(* The server runs the handlers as tasks of one event loop (uvicorn.run,   *)
(* main.py).  A task runs on the thread of the loop from one suspension    *)
(* (an await that has to wait, a yield of chat_stream) to the next.  The   *)
(* remote calls of the SDK clients are blocking calls: the task keeps the  *)
(* thread while it waits for their answer, and running names that task.    *)
(* The await of the tokeninfo answer, the yield of a line and the await of *)
(* asyncio.sleep(0) suspend the task and leave the thread to the loop.     *)
(* The line chat_stream yields is sent by the framework, which awaits the  *)
(* transport: the task stays suspended until the client has consumed the   *)
(* line.                                                                   *)
(*                                                                         *)
(* Each task serves one request, a send_message or a create_conversation,  *)
(* with the handlers' operators of the sections above; the answers of the  *)
(* remote services are drawn when a call returns.                          *)
(***************************************************************************)

\* The most requests served at the same time.
MaxTasks == 2

Tasks == 1..MaxTasks

\* chat_stream of task t is suspended at a yield, and the client has not
\* consumed the line it yielded.
AwaitsClient(t) ==
    /\ tasks[t].phase = "streaming"
    /\ tasks[t].stream.pc \in {"yielded", "error_yielded"}
    /\ tasks[t].consumed < Len(tasks[t].stream.lines)

\* The thread of the loop with a send that blocks: the line is written to
\* the client by a blocking write, and the thread is held until the client
\* has consumed it.
LoopFreeBlockingSend == running = 0 /\ \A s \in Tasks : ~AwaitsClient(s)

\* The loop can resume a task: no task holds its thread.
LoopFree == running = 0

\* A request arrives for task t: the framework starts the dependency
\* validate_token, which awaits the answer of the tokeninfo endpoint.  The
\* answer: the claims of this application's token, with the keys the
\* handlers read.
request_arrives(t) ==
    /\ LoopFree
    /\ tasks[t].phase = "idle"
    /\ \E params \in {[op |-> "send_message",
                       conversation_name |-> "conversations/c1",
                       agent_name |-> "agents/a1",
                       message_req |-> [text |-> "question"]],
                      [op |-> "create_conversation", agent_name |-> <<"a", "1">>]},
          response \in {r \in Introspections("T1") :
                            /\ r.completed
                            /\ r.status_code = 200
                            /\ r.json = Some([aud |-> GOOGLE_CLIENT_ID,
                                              token |-> "T1",
                                              token_info |->
                                                [scope |-> <<"openid", " ", "email">>]])} :
        tasks' = [tasks EXCEPT ![t] =
                    [phase |-> "validating",
                     op |-> params.op,
                     req |-> params @@ [token |-> "T1", introspection |-> response],
                     rpcs |-> <<>>,
                     resp |-> [status |-> 0],
                     stream |-> [pc |-> "none"],
                     consumed |-> 0]]
    /\ running' = running
    /\ UNCHANGED <<phase, op, req, rpcs, resp, reply, envelope, stream>>

\* validate_token returns to the send_message of task t, which answers with
\* the stream before chat_stream has run; or it raises.
task_send_message(t) ==
    /\ LoopFree
    /\ tasks[t].phase = "validating" /\ tasks[t].op = "send_message"
    /\ LET task == tasks[t]
           token_info == ValidateToken(task.req.token, task.req.introspection)
       IN  tasks' = [tasks EXCEPT ![t] =
                IF token_info.raised
                THEN [task EXCEPT !.phase = "done",
                                  !.resp = HttpResponse(Raise(token_info.exc, <<>>))]
                ELSE [task EXCEPT
                        !.phase = "streaming",
                        !.req = ChatInputs(task.req, task.req.token,
                                           task.req.introspection, token_info),
                        !.resp = [status |-> 200,
                                  body |-> [media_type |-> "text/event-stream"]],
                        !.stream = [pc |-> "start", k |-> 0, lines |-> <<>>]]]
    /\ running' = running
    /\ UNCHANGED <<phase, op, req, rpcs, resp, reply, envelope, stream>>

\* validate_token returns to the create_conversation of task t, which runs
\* into its remote call; or it raises.
task_create_conversation(t) ==
    /\ LoopFree
    /\ tasks[t].phase = "validating" /\ tasks[t].op = "create_conversation"
    /\ LET task == tasks[t]
           token_info == ValidateToken(task.req.token, task.req.introspection)
       IN  /\ tasks' = [tasks EXCEPT ![t] =
                IF token_info.raised
                THEN [task EXCEPT !.phase = "done",
                                  !.resp = HttpResponse(Raise(token_info.exc, <<>>))]
                ELSE [task EXCEPT
                        !.phase = "calling",
                        !.req = ChatInputs(task.req, task.req.token,
                                           task.req.introspection, token_info)]]
           /\ running' = IF token_info.raised THEN 0 ELSE t
    /\ UNCHANGED <<phase, op, req, rpcs, resp, reply, envelope, stream>>

\* The remote call of the create_conversation of task t returns, and the
\* handler answers.
task_create_conversation_returns(t) ==
    /\ running = t
    /\ tasks[t].phase = "calling"
    /\ \E outcome \in {o \in CreateConversationOutcomes(tasks[t].req.agent_name) :
                          IF o.ok THEN o.convo.last_used_time = Nothing
                          ELSE o.exc.class = "NotFound"} :
        LET task == tasks[t]
            result == ChatExcept(
                CreateConversationTry(task.req.agent_name, task.req.token_info,
                                      outcome),
                "API error creating conversation: ")
        IN  tasks' = [tasks EXCEPT ![t] =
                        [task EXCEPT !.phase = "done",
                                     !.rpcs = result.calls,
                                     !.resp = HttpResponse(result)]]
    /\ running' = 0
    /\ UNCHANGED <<phase, op, req, rpcs, resp, reply, envelope, stream>>

\* The chunks of the chat replies to concurrent requests: a text of the
\* agent, and a user message without its text, which cannot be formatted.
ReplyChunks ==
    {ch \in Chunks :
        \/ FormatMessageResponse(ch).raised
        \/ /\ "system_message" \in DOMAIN ch[1]
           /\ "user_message" \notin DOMAIN ch[1]}

\* The answers of get_data_agent to chat_stream of concurrent requests: a
\* Looker agent, or the agent does not exist.
LookupOutcomes ==
    {o \in GetOutcomes("agents/a1") :
        IF o.ok THEN IsLookerAgent(o.agent) ELSE o.exc.class = "NotFound"}

\* The chat reply after the next blocking read of it: one more chunk, or
\* the end of the reply.
ReplyExtensions(chatOutcome) ==
    {[chatOutcome EXCEPT !.chunks = Append(@, c)] :
        c \in IF Len(chatOutcome.chunks) < MaxChunks THEN ReplyChunks ELSE {}}
    \cup {chatOutcome}

\* The loop resumes chat_stream of task t for the first time: it runs into
\* its remote calls.
task_chat_stream_start(t) ==
    /\ LoopFree
    /\ tasks[t].phase = "streaming" /\ tasks[t].stream.pc = "start"
    /\ tasks' = [tasks EXCEPT ![t].stream.pc = "begun"]
    /\ running' = t
    /\ UNCHANGED <<phase, op, req, rpcs, resp, reply, envelope, stream>>

\* The remote calls of chat_stream of task t return: the agent lookup, the
\* chat call, and the first read of the reply; chat_stream runs to its
\* first yield, or to its end.
task_chat_stream_begun(t) ==
    /\ running = t
    /\ tasks[t].phase = "streaming" /\ tasks[t].stream.pc = "begun"
    /\ \E getOutcome \in LookupOutcomes,
          chatOutcome \in ReplyExtensions([ok |-> TRUE, chunks |-> <<>>,
                                           broken |-> Nothing]) :
        LET task == tasks[t]
            begun == ChatStreamBegin(task.req.conversation_name, task.req.agent_name,
                                     task.req.message_req.text, task.req.token_info,
                                     getOutcome, chatOutcome)
            st == IF begun.raised
                  THEN [pc |-> "error_yielded", k |-> 0,
                        lines |-> <<ErrorLine(begun.exc)>>]
                  ELSE ChatStreamNext([pc |-> "start", k |-> 0, lines |-> <<>>],
                                      chatOutcome)
        IN  tasks' = [tasks EXCEPT ![t] =
                        [task EXCEPT
                            !.rpcs = begun.calls,
                            !.stream = st,
                            !.phase = IF st.pc = "closed" THEN "done"
                                      ELSE "streaming"]]
    /\ running' = 0
    /\ UNCHANGED <<phase, op, req, rpcs, resp, reply, envelope, stream>>

\* The client of task t consumes the line chat_stream yielded: the send of
\* the framework completes.
client_consume(t) ==
    /\ AwaitsClient(t)
    /\ tasks' = [tasks EXCEPT ![t].consumed = Len(tasks[t].stream.lines)]
    /\ running' = running
    /\ UNCHANGED <<phase, op, req, rpcs, resp, reply, envelope, stream>>

\* The loop resumes chat_stream of task t at the yield of a line, once the
\* line is sent: it runs to the await of asyncio.sleep(0).
task_chat_stream_sleep(t) ==
    /\ LoopFree
    /\ tasks[t].phase = "streaming" /\ tasks[t].stream.pc = "yielded"
    /\ tasks[t].consumed = Len(tasks[t].stream.lines)
    /\ tasks' = [tasks EXCEPT ![t].stream.pc = "sleeping"]
    /\ running' = running
    /\ UNCHANGED <<phase, op, req, rpcs, resp, reply, envelope, stream>>

\* The loop resumes chat_stream of task t after asyncio.sleep(0): it runs
\* into the next blocking read of the reply.
task_chat_stream_resume(t) ==
    /\ LoopFree
    /\ tasks[t].phase = "streaming" /\ tasks[t].stream.pc = "sleeping"
    /\ tasks' = [tasks EXCEPT ![t].stream.pc = "taking"]
    /\ running' = t
    /\ UNCHANGED <<phase, op, req, rpcs, resp, reply, envelope, stream>>

\* The read of the reply returns to chat_stream of task t: it runs to its
\* next yield, or to its end.
task_chat_stream_next(t) ==
    /\ running = t
    /\ tasks[t].phase = "streaming" /\ tasks[t].stream.pc = "taking"
    /\ \E chatOutcome \in ReplyExtensions(tasks[t].rpcs[2].outcome) :
        LET task == tasks[t]
            st == ChatStreamNext(task.stream, chatOutcome)
        IN  tasks' = [tasks EXCEPT ![t] =
                        [task EXCEPT
                            !.rpcs[2].outcome = chatOutcome,
                            !.stream = st,
                            !.phase = IF st.pc = "closed" THEN "done"
                                      ELSE "streaming"]]
    /\ running' = 0
    /\ UNCHANGED <<phase, op, req, rpcs, resp, reply, envelope, stream>>

\* The loop resumes chat_stream of task t at the yield of the error line,
\* once the line is sent: the except clause and the generator end.
task_chat_stream_end(t) ==
    /\ LoopFree
    /\ tasks[t].phase = "streaming" /\ tasks[t].stream.pc = "error_yielded"
    /\ tasks[t].consumed = Len(tasks[t].stream.lines)
    /\ tasks' = [tasks EXCEPT ![t].stream.pc = "closed", ![t].phase = "done"]
    /\ running' = running
    /\ UNCHANGED <<phase, op, req, rpcs, resp, reply, envelope, stream>>

\* The steps of task t that the loop, or the return of a remote call,
\* takes.
Scheduled(t) ==
    \/ task_send_message(t)
    \/ task_create_conversation(t)
    \/ task_create_conversation_returns(t)
    \/ task_chat_stream_start(t)
    \/ task_chat_stream_begun(t)
    \/ task_chat_stream_sleep(t)
    \/ task_chat_stream_resume(t)
    \/ task_chat_stream_next(t)
    \/ task_chat_stream_end(t)

LoopInit ==
    /\ phase = "idle"
    /\ op = "none"
    /\ req = [none |-> TRUE]
    /\ rpcs = <<>>
    /\ resp = [status |-> 0]
    /\ reply = <<>>
    /\ envelope = [type |-> "none"]
    /\ stream = [pc |-> "none"]
    /\ tasks = [t \in Tasks |-> [phase |-> "idle"]]
    /\ running = 0

LoopNext ==
    \E t \in Tasks :
        \/ request_arrives(t)
        \/ task_send_message(t)
        \/ task_create_conversation(t)
        \/ task_create_conversation_returns(t)
        \/ task_chat_stream_start(t)
        \/ task_chat_stream_begun(t)
        \/ client_consume(t)
        \/ task_chat_stream_sleep(t)
        \/ task_chat_stream_resume(t)
        \/ task_chat_stream_next(t)
        \/ task_chat_stream_end(t)

\* The loop goes on running while a task is ready, and a remote call
\* returns.  The client of task 1 may stop consuming for good; the clients
\* of the other tasks go on consuming.
LoopSpec ==
    /\ LoopInit
    /\ [][LoopNext]_vars
    /\ WF_vars(\E t \in Tasks : Scheduled(t))
    /\ WF_vars(\E t \in Tasks \ {1} : client_consume(t))

(***************************************************************************)
(* Claims about the agent routes                                           *)
(***************************************************************************)

\* A request field that is missing: absent or empty.
Missing(v) == v = None \/ v = ""

BigQueryTriplePresent(d) ==
    ~Missing(d.bq_project_id) /\ ~Missing(d.bq_dataset_id) /\ ~Missing(d.bq_table_id)

LookerTriplePresent(d) ==
    ~Missing(d.looker_instance_url) /\ ~Missing(d.looker_model)
    /\ ~Missing(d.looker_explore)

\* The discriminator names a kind and that kind's three fields are present.
ValidCreateRequest(d) ==
    \/ d.data_source = "BigQuery" /\ BigQueryTriplePresent(d)
    \/ d.data_source = "Looker" /\ LookerTriplePresent(d)

CreateAnswered == phase = "done" /\ op = "create_agent"
UpdateAnswered == phase = "done" /\ op = "update_agent"

\* C1: create_agent answers a request that fails the datasource validation
\* (a required field of the chosen kind missing, or a discriminator that is
\* neither BigQuery nor Looker) with HTTP status 400.
C1_InvalidCreateAnswers400 ==
    (CreateAnswered /\ ~ValidCreateRequest(req.agent_data)) => resp.status = 400

\* C2: create_agent issues the remote create call if and only if the request
\* is valid, issues nothing else, and a request that fails validation is
\* answered with an error without any remote call.
C2_CreateRpcIffValid ==
    CreateAnswered =>
        /\ Len(rpcs) <= 1
        /\ \A i \in 1..Len(rpcs) : rpcs[i].rpc = "create_data_agent"
        /\ (Len(rpcs) = 1) <=> ValidCreateRequest(req.agent_data)
        /\ ~ValidCreateRequest(req.agent_data) => (resp.status >= 400 /\ rpcs = <<>>)

\* A BigQuery request that lacks a BigQuery field but carries the whole
\* Looker triple has been refused without a remote call.
C2_Witness ==
    /\ CreateAnswered
    /\ req.agent_data.data_source = "BigQuery"
    /\ req.agent_data.bq_dataset_id = ""
    /\ LookerTriplePresent(req.agent_data)
    /\ rpcs = <<>>
    /\ resp.status >= 400

\* The datasource references of the agent a create call submits.
SubmittedReferences(call) ==
    call.data_agent.data_analytics_agent.published_context.datasource_references

\* C3: the agent create_agent submits has exactly one datasource kind set,
\* the one the discriminator names, with that kind's reference filled from
\* the request and no reference of another kind.
C3_ExactlyOneDatasourceKind ==
    CreateAnswered =>
        \A i \in 1..Len(rpcs) :
            LET ds == SubmittedReferences(rpcs[i])
                d == req.agent_data
            IN  /\ Cardinality(ds.kinds) = 1
                /\ d.data_source = "BigQuery" =>
                    /\ ds.kinds = {"bq"}
                    /\ ds.bq = <<[project_id |-> d.bq_project_id,
                                  dataset_id |-> d.bq_dataset_id,
                                  table_id |-> d.bq_table_id]>>
                    /\ ds.looker = <<>>
                /\ d.data_source = "Looker" =>
                    /\ ds.kinds = {"looker"}
                    /\ ds.looker = <<[looker_instance_uri |-> d.looker_instance_url,
                                      lookml_model |-> d.looker_model,
                                      explore |-> d.looker_explore]>>
                    /\ ds.bq = <<>>

\* A Looker agent has been submitted for a request that also carries the
\* whole BigQuery triple.
C3_Witness ==
    /\ CreateAnswered
    /\ req.agent_data.data_source = "Looker"
    /\ BigQueryTriplePresent(req.agent_data)
    /\ Len(rpcs) = 1
    /\ SubmittedReferences(rpcs[1]).kinds = {"looker"}
    /\ resp.status = 200

\* C4: the agent update_agent submits carries the datasource references of
\* the agent it fetched, unchanged, and the display name, description and
\* system instruction of the request.
C4_UpdateKeepsDatasource ==
    UpdateAnswered =>
        \A i \in 1..Len(rpcs) :
            rpcs[i].rpc = "update_data_agent" =>
                LET sent == rpcs[i].data_agent
                    fetched == rpcs[1].outcome.agent
                IN  /\ i = 2
                    /\ rpcs[1].rpc = "get_data_agent"
                    /\ SubmittedReferences(rpcs[i]) =
                         fetched.data_analytics_agent.published_context
                             .datasource_references
                    /\ sent.name = req.agent_name
                    /\ sent.display_name = req.agent_data.display_name
                    /\ sent.description = req.agent_data.description
                    /\ sent.data_analytics_agent.published_context.system_instruction
                         = req.agent_data.system_instruction

\* An update has been submitted for an agent bound to a Looker explore, with
\* new display name, description and system instruction.
C4_Witness ==
    /\ UpdateAnswered
    /\ Len(rpcs) = 2
    /\ SubmittedReferences(rpcs[2]).kinds = {"looker"}
    /\ rpcs[2].data_agent.display_name # rpcs[1].outcome.agent.display_name
    /\ rpcs[2].data_agent.data_analytics_agent.published_context.system_instruction
         = "si2"
    /\ resp.status = 200

\* The get call of an update was answered NotFound: the agent does not exist.
UpdateOfAbsentAgent ==
    /\ UpdateAnswered
    /\ Len(rpcs) >= 1
    /\ rpcs[1].rpc = "get_data_agent"
    /\ ~rpcs[1].outcome.ok
    /\ rpcs[1].outcome.exc.class = "NotFound"

\* C5 as stated: update_agent on an agent that does not exist answers with
\* status 404.
C5_AbsentAgentAnswers404 ==
    UpdateOfAbsentAgent => resp.status = 404

\* C5 as amended: update_agent on an agent that does not exist answers with
\* status 500, the detail carrying the upstream NotFound error, and issues no
\* update call.
C5_AbsentAgentAnswers500 ==
    UpdateOfAbsentAgent =>
        /\ resp.status = 500
        /\ resp.detail.prefix = "API error updating agent: "
        /\ resp.detail.cause.class = "NotFound"
        /\ Len(rpcs) = 1

\* An update of an absent agent has been answered.
C5_Witness ==
    UpdateOfAbsentAgent /\ resp.status >= 400 /\ req.agent_name = "agents/a2"

(***************************************************************************)
(* Claims about the conversation listing                                   *)
(***************************************************************************)

\* list_conversations has answered a request whose listing call the remote
\* service answered with a listing.
ListingFiltered ==
    /\ phase = "done" /\ op = "list_conversations"
    /\ Len(rpcs) = 1 /\ rpcs[1].outcome.ok

\* list_conversations has answered a request whose listing call failed.
ListingFailed ==
    /\ phase = "done" /\ op = "list_conversations"
    /\ Len(rpcs) = 1 /\ ~rpcs[1].outcome.ok

\* The part of a name after its last "/": the whole name when it has none.
TrailingSegment(name) ==
    LET slashes == {i \in 1..Len(name) : name[i] = "/"}
        last == IF slashes = {} THEN 0
                ELSE CHOOSE i \in slashes : \A j \in slashes : j <= i
    IN  SubSeq(name, last + 1, Len(name))

IsSubstring(x, y) ==
    \E i \in 1..(Len(y) + 1), j \in 0..Len(y) : SubSeq(y, i, j) = x

\* The membership rule for queried name A and associated-agent list S.
IsAssociated(A, S) ==
    \/ \E k \in 1..Len(S) : S[k] = A
    \/ \E k \in 1..Len(S) : IsSubstring(TrailingSegment(A), S[k])

\* C6: of the conversations of the upstream listing, list_conversations
\* returns exactly those associated with the queried agent name by the
\* membership rule, each once, in the order of the listing.
C6_ListingMembership ==
    ListingFiltered =>
        LET convos == rpcs[1].outcome.convos
            out == resp.body.conversations
            kept == {i \in 1..Len(convos) :
                        IsAssociated(req.agent_name, convos[i].agents)}
        IN  /\ resp.status = 200
            /\ Len(out) = Cardinality(kept)
            /\ \A j \in 1..Len(out) :
                /\ out[j].name \in kept
                /\ out[j].agents = convos[out[j].name].agents
            /\ \A j, k \in 1..Len(out) : j < k => out[j].name < out[k].name

\* A conversation associated with p/a1 has been returned for the query q/a1,
\* and one associated with p/b left out, out of a listing of two.
C6_Witness ==
    /\ ListingFiltered
    /\ req.agent_name = <<"q", "/", "a", "1">>
    /\ Len(rpcs[1].outcome.convos) = 2
    /\ rpcs[1].outcome.convos[1].agents = << <<"p", "/", "b">> >>
    /\ rpcs[1].outcome.convos[2].agents = << <<"p", "/", "a", "1">> >>
    /\ Len(resp.body.conversations) = 1
    /\ resp.body.conversations[1].name = 2

\* C7: list_conversations answers a failed listing call with an empty
\* conversation list when the failure is a permission-denied or a not-found
\* error, and with an error response when it is of any other kind.
C7_SoftFailOnlyOnPermissionOrNotFound ==
    ListingFailed =>
        IF rpcs[1].outcome.exc.class \in {"PermissionDenied", "NotFound"}
        THEN resp.status = 200 /\ resp.body.conversations = <<>>
        ELSE resp.status >= 400

(***************************************************************************)
(* Claims about the response normalizer                                    *)
(***************************************************************************)

\* format_message_response has produced the envelope of reply.
Normalized == phase = "done" /\ op = "format_message_response"

\* The class the first matching check gives a reply, in the order user
\* message, system message, wrapped message, unknown.
RECURSIVE FirstMatch(_)
FirstMatch(m) ==
    CASE Populated(m, "user_message") -> "user"
      [] ~Populated(m, "user_message") /\ HasAttr(m, "system_message") -> "assistant"
      [] ~Populated(m, "user_message") /\ ~HasAttr(m, "system_message")
            /\ HasAttr(m, "message") -> FirstMatch(Attr(m, "message"))
      [] OTHER -> "unknown"

\* C10: format_message_response classifies a reply by the first matching
\* check: a populated user message makes it user whatever else it carries;
\* otherwise a system-message field makes it assistant; otherwise a wrapped
\* message gives it the class of the inner message; anything else is unknown
\* with the content {raw}.
C10_ClassificationPrecedence ==
    Normalized =>
        /\ ~envelope.raised
        /\ envelope.value.type = FirstMatch(reply)
        /\ Populated(reply, "user_message") =>
            /\ envelope.value.type = "user"
            /\ envelope.value.content = [text |-> Attr(Attr(reply, "user_message"), "text")]
        /\ (~Populated(reply, "user_message") /\ HasAttr(reply, "system_message")) =>
            envelope.value.type = "assistant"
        /\ envelope.value.type = "unknown" =>
            /\ DOMAIN envelope.value.content = {"raw"}
            /\ envelope.value.timestamp = Nothing
        /\ (~Populated(reply, "user_message") /\ ~HasAttr(reply, "system_message")
                /\ ~HasAttr(reply, "message")) =>
            /\ envelope.value.type = "unknown"
            /\ envelope.value.content = [raw |-> reply]

\* A reply with a populated user message, a populated system message and a
\* wrapped message has been classified as user.
C10_Witness ==
    /\ Normalized
    /\ Populated(reply, "user_message")
    /\ Populated(reply, "system_message")
    /\ Populated(reply, "message")
    /\ envelope.value.type = "user"

(***************************************************************************)
(* Claims about the bulk operations                                        *)
(***************************************************************************)

\* get_messages has answered a request whose list_messages call the remote
\* service answered with the stored messages.
MessagesListed ==
    /\ phase = "done" /\ op = "get_messages"
    /\ Len(rpcs) = 1 /\ rpcs[1].outcome.ok

\* list_agents has answered a request whose list_data_agents call the remote
\* service answered with the agents.
AgentsListed ==
    /\ phase = "done" /\ op = "list_agents"
    /\ Len(rpcs) = 1 /\ rpcs[1].outcome.ok

\* The number a string of digits denotes.
RECURSIVE Decimal(_)
Decimal(ds) ==
    IF ds = <<>> THEN 0
    ELSE 10 * Decimal(SubSeq(ds, 1, Len(ds) - 1))
         + (CHOOSE d \in 0..9 : Digits[d + 1] = ds[Len(ds)])

\* The time, in microseconds, an ISO-8601 string SS[.ffffff]+00:00 denotes.
MicrosecondsOf(iso) ==
    1000000 * Decimal(SubSeq(iso, 1, 2))
    + (IF iso[3] = "." THEN Decimal(SubSeq(iso, 4, 9)) ELSE 0)

\* C8: get_messages returns the messages with every message without a
\* timestamp before every message with one, and the messages with a
\* timestamp in ascending order of the time it denotes.
C8_MessagesOrdered ==
    MessagesListed =>
        LET out == resp.body.messages
        IN  /\ resp.status = 200
            /\ \A i, j \in 1..Len(out) :
                i < j =>
                    \/ out[i].timestamp = Nothing
                    \/ /\ out[j].timestamp # Nothing
                       /\ MicrosecondsOf(out[i].timestamp[1])
                            <= MicrosecondsOf(out[j].timestamp[1])

\* Three messages stored in the order 10 s, no timestamp, 9.5 s have been
\* returned in the order no timestamp, 9.5 s, 10 s.
C8_Witness ==
    /\ MessagesListed
    /\ rpcs[1].outcome.msgs =
         << Some([message_id |-> "m", message |->
                Some([user_message |-> Some([text |-> "question"]),
                      system_message |-> Nothing,
                      create_time |-> Some([second |-> 10, microsecond |-> 0])])]),
            Some([message_id |-> "m", message |->
                Some([user_message |-> Some([text |-> "question"]),
                      system_message |-> Nothing,
                      create_time |-> Nothing])]),
            Some([message_id |-> "m", message |->
                Some([user_message |-> Some([text |-> "question"]),
                      system_message |-> Nothing,
                      create_time |-> Some([second |-> 9, microsecond |-> 500000])])]) >>
    /\ Len(resp.body.messages) = 3
    /\ resp.body.messages[1].timestamp = Nothing
    /\ resp.body.messages[2].timestamp =
         Some(<<"0", "9", ".", "5", "0", "0", "0", "0", "0",
                "+", "0", "0", ":", "0", "0">>)
    /\ resp.body.messages[3].timestamp =
         Some(<<"1", "0", "+", "0", "0", ":", "0", "0">>)

\* How often e occurs in seq.
Count(e, seq) == Cardinality({i \in 1..Len(seq) : seq[i] = e})

\* The j-th smallest element of a set of numbers.
Nth(set, j) == CHOOSE i \in set : Cardinality({k \in set : k < i}) = j - 1

\* C9: list_agents and get_messages answer with status 200 and exactly the
\* items whose conversion succeeded, whatever the number of items whose
\* conversion raised: get_messages with the envelopes of the convertible
\* messages, list_agents with the dictionaries of the convertible agents in
\* the order of the listing.
C9_MalformedItemsDropped ==
    /\ MessagesListed =>
        LET msgs == rpcs[1].outcome.msgs
            out == resp.body.messages
            good == {i \in 1..Len(msgs) : ~FormatWrapped(msgs[i]).raised}
        IN  /\ resp.status = 200
            /\ Len(out) = Cardinality(good)
            /\ \A i \in good :
                Count(FormatWrapped(msgs[i]).value, out) =
                    Cardinality({k \in good : FormatWrapped(msgs[k]).value
                                                = FormatWrapped(msgs[i]).value})
    /\ AgentsListed =>
        LET agents == rpcs[1].outcome.agents
            out == resp.body.agents
            good == {i \in 1..Len(agents) : ~AgentDict(agents[i]).raised}
        IN  /\ resp.status = 200
            /\ Len(out) = Cardinality(good)
            /\ \A j \in 1..Len(out) : out[j] = AgentDict(agents[Nth(good, j)]).value

\* Of three stored messages the second, a user message without its text,
\* has been dropped and the other two returned.
C9_Witness ==
    /\ MessagesListed
    /\ Len(rpcs[1].outcome.msgs) = 3
    /\ ~FormatWrapped(rpcs[1].outcome.msgs[1]).raised
    /\ Populated(rpcs[1].outcome.msgs[2], "message")
    /\ FormatWrapped(rpcs[1].outcome.msgs[2]).raised
    /\ ~FormatWrapped(rpcs[1].outcome.msgs[3]).raised
    /\ resp.status = 200
    /\ Len(resp.body.messages) = 2

(***************************************************************************)
(* Claims about format_system_message and the variant formatters          *)
(***************************************************************************)

\* format_system_message has been applied to the system message in reply.
SystemMessageFormatted ==
    phase = "done" /\ op = "format_system_message"

\* The first populated variant of a system message in the order text,
\* schema, data, chart; "unknown" when none is populated.
FirstPopulated(sm) ==
    IF Populated(sm, "text") THEN "text"
    ELSE IF Populated(sm, "schema") THEN "schema"
    ELSE IF Populated(sm, "data") THEN "data"
    ELSE IF Populated(sm, "chart") THEN "chart"
    ELSE "unknown"

\* C11: format_system_message gives every system message the type
\* assistant; message_type and content.type are both the first populated
\* variant in the order text, schema, data, chart, and when no variant is
\* populated the content is {type: unknown, raw: the system message}.
C11_SubClassificationPrecedence ==
    SystemMessageFormatted =>
        LET e == envelope.value
            v == FirstPopulated(reply)
        IN  /\ ~envelope.raised
            /\ e.type = "assistant"
            /\ e.message_type = v
            /\ e.content.type = v
            /\ v = "unknown" => e.content = [type |-> "unknown", raw |-> reply]

\* A system message with an empty text, no schema, and both data and chart
\* populated has been classified as data.
C11_Witness ==
    /\ SystemMessageFormatted
    /\ HasAttr(reply, "text") /\ ~Populated(reply, "text")
    /\ ~HasAttr(reply, "schema")
    /\ Populated(reply, "data") /\ Populated(reply, "chart")
    /\ envelope.value.message_type = "data"

\* The system message in reply was formatted as its schema variant.
SchemaFormatted ==
    SystemMessageFormatted /\ FirstPopulated(reply) = "schema"

\* The content of a resolved schema result: one formatted entry per
\* datasource of the result, in order.
ResolvedContent(schema_resp) ==
    LET datasources == Attr(Attr(schema_resp, "result"), "datasources")
    IN  [type |-> "schema", status |-> "Schema resolved",
         datasources |-> [i \in 1..Len(datasources) |-> FormatDatasource(datasources[i])]]

\* C12 as stated: a schema carrying a pending query is normalized to
\* {type: query, question}; one carrying a resolved result to
\* {type: schema, status: Schema resolved, datasources}.
C12_PendingQueryIsTypeQuery ==
    SchemaFormatted =>
        LET schema_resp == Attr(reply, "schema")
            content == envelope.value.content
        IN  /\ Populated(schema_resp, "query") =>
                content = [type |-> "query",
                           question |-> Attr(Attr(schema_resp, "query"), "question")]
            /\ Populated(schema_resp, "result") =>
                content = ResolvedContent(schema_resp)

\* C12 amended: a schema carrying a pending query is normalized to
\* {type: schema, query: {question}}; one carrying a resolved result and no
\* pending query to {type: schema, status: Schema resolved, datasources}
\* with one formatted entry per datasource of the result.
C12_PendingQueryNestedInSchema ==
    SchemaFormatted =>
        LET schema_resp == Attr(reply, "schema")
            content == envelope.value.content
        IN  /\ Populated(schema_resp, "query") =>
                content = [type |-> "schema",
                           query |-> [question |->
                                        Attr(Attr(schema_resp, "query"), "question")]]
            /\ (Populated(schema_resp, "result") /\ ~Populated(schema_resp, "query")) =>
                /\ content = ResolvedContent(schema_resp)
                /\ Len(content.datasources)
                     = Len(Attr(Attr(schema_resp, "result"), "datasources"))

\* A schema with the pending query "q1" and no result has been normalized.
C12_Witness ==
    /\ SchemaFormatted
    /\ Populated(Attr(reply, "schema"), "query")
    /\ ~HasAttr(Attr(reply, "schema"), "result")
    /\ envelope.value.content.query.question = "q1"

\* The system message in reply was formatted as its data variant and
\* carries a tabular result.
TabularFormatted ==
    /\ SystemMessageFormatted /\ FirstPopulated(reply) = "data"
    /\ Populated(Attr(reply, "data"), "result")

\* C13: for a tabular result of N >= 0 rows the columns map holds one array
\* per field of the field list, each of length N, holding at index i the
\* value of row i for the field, or null where the row has no such cell.
C13_OneColumnPerField ==
    TabularFormatted =>
        LET result == Attr(Attr(reply, "data"), "result")[1]
            schema_fields == result.schema.fields
            rows == result.data
            columns == envelope.value.content.data.columns
        IN  /\ DOMAIN columns = {schema_fields[k].name : k \in 1..Len(schema_fields)}
            /\ \A f \in DOMAIN columns :
                /\ Len(columns[f]) = Len(rows)
                /\ \A i \in 1..Len(rows) :
                    columns[f][i] = IF f \in DOMAIN rows[i] THEN rows[i][f] ELSE None

\* The system message in reply was formatted as its chart variant and
\* carries a chart result.
ChartFormatted ==
    /\ SystemMessageFormatted /\ FirstPopulated(reply) = "chart"
    /\ Populated(Attr(reply, "chart"), "result")

\* The translation of the chart configuration of a chart result succeeds.
Translates(result) ==
    HasAttr(result, "vega_config") /\ Attr(result, "vega_config").well_formed

\* C14: format_chart_response returns for every chart result; when the
\* translation of the configuration fails the content has error and no
\* vega_config, when it succeeds vega_config and no error.
C14_ChartDegradesToError ==
    ChartFormatted =>
        LET result == Attr(Attr(reply, "chart"), "result")
            content == envelope.value.content
        IN  /\ ~envelope.raised
            /\ content.type = "chart"
            /\ IF Translates(result)
               THEN "vega_config" \in DOMAIN content /\ "error" \notin DOMAIN content
               ELSE "error" \in DOMAIN content /\ "vega_config" \notin DOMAIN content

\* A chart result whose configuration Altair rejects has been formatted
\* into a content with an error.
C14_Witness ==
    /\ ChartFormatted
    /\ HasAttr(Attr(Attr(reply, "chart"), "result"), "vega_config")
    /\ ~Translates(Attr(Attr(reply, "chart"), "result"))
    /\ envelope.value.content.error = "Failed to process chart specification"

(***************************************************************************)
(* Claims about the chat-send stream                                       *)
(***************************************************************************)

\* chat_stream of the current request has run.
StreamRan == op = "send_message" /\ stream.pc \notin {"none", "start"}

\* chat_stream issued the chat call and the call was accepted.
ChatAccepted == Len(rpcs) = 2 /\ rpcs[2].outcome.ok

\* A line of the stream is the error line.
IsErrorLine(line) == "error" \in DOMAIN line[1].json

\* The chunk cannot be formatted.
Undecodable(chunk) == FormatMessageResponse(chunk).raised

\* The number of chunks chat_stream emits before an exception ends it: none
\* when the exception precedes the stream, else the chunks before the first
\* that cannot be formatted.
EmittedBeforeFailure ==
    IF ~ChatAccepted THEN 0
    ELSE LET chunks == rpcs[2].outcome.chunks
             bad == {i \in 1..Len(chunks) : Undecodable(chunks[i])}
         IN  IF bad = {} THEN Len(chunks)
             ELSE (CHOOSE i \in bad : \A j \in bad : i <= j) - 1

\* An exception occurs in the run of chat_stream: before the chat call is
\* accepted, at a chunk, or when the reply breaks off.
RunFails ==
    \/ ~ChatAccepted
    \/ \E i \in 1..Len(rpcs[2].outcome.chunks) : Undecodable(rpcs[2].outcome.chunks[i])
    \/ rpcs[2].outcome.broken # Nothing

\* The lines emitted so far: at most one error line, and it is the last
\* line and ends the stream; every other line i is the JSON line of chunk i.
\* When the stream has ended: with an exception, the chunks before it and
\* the error line; without one, a line for every chunk and no error line.
StreamLinesInOrder ==
    StreamRan =>
        LET lines == stream.lines
            errors == {i \in 1..Len(lines) : IsErrorLine(lines[i])}
        IN  /\ Cardinality(errors) <= 1
            /\ \A i \in errors :
                i = Len(lines) /\ stream.pc \in {"error_yielded", "closed"}
            /\ \A i \in (1..Len(lines)) \ errors :
                /\ ChatAccepted
                /\ ~Undecodable(rpcs[2].outcome.chunks[i])
                /\ lines[i] = JsonLine(FormatMessageResponse(
                                           rpcs[2].outcome.chunks[i]).value)
            /\ stream.pc = "closed" =>
                IF RunFails
                THEN /\ Cardinality(errors) = 1
                     /\ Len(lines) = EmittedBeforeFailure + 1
                ELSE /\ errors = {}
                     /\ Len(lines) = Len(rpcs[2].outcome.chunks)

\* s is a prefix of t.
IsPrefix(s, t) == Len(s) <= Len(t) /\ SubSeq(t, 1, Len(s)) = s

\* C15: the stream emits one JSON line per reply chunk in upstream order;
\* an exception at any point puts exactly one error line at the end of the
\* stream, after which no chunk is emitted; a run without exception emits no
\* error line; and a line once emitted stays in the output.
C15_StreamEndsWithOneErrorLine ==
    /\ []StreamLinesInOrder
    /\ [][(op = "send_message" /\ op' = "send_message")
            => IsPrefix(stream.lines, stream'.lines)]_vars

\* A stream has ended with the lines of two chunks and then the error line
\* of the reply breaking off.
C15_Witness ==
    /\ StreamRan /\ stream.pc = "closed"
    /\ ChatAccepted
    /\ rpcs[2].outcome.broken # Nothing
    /\ stream.k = 2
    /\ Len(stream.lines) = 3
    /\ ~IsErrorLine(stream.lines[1]) /\ ~IsErrorLine(stream.lines[2])
    /\ IsErrorLine(stream.lines[3])

\* The chat call has been issued.
ChatIssued == op = "send_message" /\ Len(rpcs) = 2

\* The credentials on the conversation reference of the chat request.
HasLookerCredentials(request) ==
    "credentials" \in DOMAIN request.conversation_reference.data_agent_context

\* C16: the chat request carries the Looker OAuth client id and secret on
\* its conversation reference if and only if the agent that get_data_agent
\* answered with has a Looker datasource reference.
C16_LookerCredentialsIffLookerAgent ==
    ChatIssued =>
        LET request == rpcs[2].request
            references == rpcs[1].outcome.agent.data_analytics_agent
                            .published_context.datasource_references
        IN  /\ HasLookerCredentials(request) <=> references.looker # <<>>
            /\ HasLookerCredentials(request) =>
                request.conversation_reference.data_agent_context.credentials
                    = [oauth |-> [secret |-> [client_id |-> LOOKER_CLIENT_ID,
                                              client_secret |-> LOOKER_CLIENT_SECRET]]]

\* A chat request for a BigQuery agent has been issued without credentials.
C16_Witness ==
    /\ ChatIssued
    /\ rpcs[1].outcome.agent.data_analytics_agent
         .published_context.datasource_references.bq # <<>>
    /\ ~HasLookerCredentials(rpcs[2].request)

(***************************************************************************)
(* Claims about the token verifiers and the authenticated routes           *)
(***************************************************************************)

\* A token verifier has been applied to the token of req, and envelope
\* holds what it returned or raised.
TokenVerified ==
    phase = "done" /\ op \in {"validate_token", "verify_google_token"}

\* The introspection completed with status 200 and JSON claims whose
\* audience is the configured client identifier.
AudienceConfirmed(response) ==
    /\ response.completed
    /\ response.status_code = 200
    /\ response.json # Nothing
    /\ "aud" \in DOMAIN response.json[1]
    /\ response.json[1].aud = GOOGLE_CLIENT_ID

\* The introspection completed with a status other than 200, or with claims
\* of another audience or of none.
AudienceRefused(response) ==
    /\ response.completed
    /\ \/ response.status_code # 200
       \/ /\ response.json # Nothing
          /\ \/ "aud" \notin DOMAIN response.json[1]
             \/ response.json[1].aud # GOOGLE_CLIENT_ID

\* C17: a token verifier returns the claims of the introspection if and
\* only if the introspection completed with status 200 and the audience of
\* the claims is the configured client identifier; for another status, or
\* another or no audience, it raises HTTPException(401) and returns nothing.
C17_ClaimsIffAudienceConfirmed ==
    TokenVerified =>
        /\ ~envelope.raised <=> AudienceConfirmed(req.introspection)
        /\ ~envelope.raised => envelope.value = req.introspection.json[1]
        /\ AudienceRefused(req.introspection) =>
            /\ envelope.raised
            /\ envelope.exc.class = "HTTPException"
            /\ envelope.exc.status_code = 401

\* validate_token has refused, with 401, claims the endpoint returned with
\* status 200 for another audience.
C17_Witness ==
    /\ TokenVerified /\ op = "validate_token"
    /\ req.introspection.completed
    /\ req.introspection.status_code = 200
    /\ req.introspection.json = Some([aud |-> "other-client-id"])
    /\ envelope.raised
    /\ envelope.exc.status_code = 401

\* A chat route, whose dependency is validate_token, has answered.
ChatRoutes ==
    {"list_conversations", "create_conversation", "get_messages", "send_message"}

ChatRouteAnswered == op \in ChatRoutes /\ phase \in {"done", "streaming"}

\* C18: when the introspection call cannot complete, the token verifier of
\* the authenticated routes reports a server-side fault, a 5xx status,
\* never 401.
C18_UnreachableIntrospectionIs5xx ==
    (ChatRouteAnswered /\ ~req.introspection.completed) =>
        (resp.status >= 500 /\ resp.status # 401)

\* The bearer-authenticated routes.
AuthenticatedRoutes ==
    {"list_agents", "create_agent", "update_agent", "delete_agent"} \cup ChatRoutes

\* C19: on every bearer-authenticated route a request whose token is
\* invalid, expired or issued for another audience is answered with 401,
\* and no agent or conversation RPC is issued for it.
C19_InvalidTokenAnswers401 ==
    (/\ op \in AuthenticatedRoutes
     /\ phase \in {"done", "streaming"}
     /\ req.token \in {"expired", "foreign"})
        => (resp.status = 401 /\ rpcs = <<>>)

\* The request carries no authorization code, and the request carries an
\* error.
NoCode(params) == "code" \notin DOMAIN params \/ ~Truthy(params.code)
HasError(params) == "error" \in DOMAIN params /\ Truthy(params.error)

\* C20: GET /callback and POST /google/callback answer a request without
\* code and without error with 400, POST /google/callback answers a request
\* with an error with 400, and in these cases no token exchange is
\* attempted.
C20_CallbackWithoutCodeAnswers400 ==
    /\ (/\ phase = "done" /\ op = "google_callback_get"
        /\ NoCode(req) /\ ~HasError(req))
            => (resp.status = 400 /\ rpcs = <<>>)
    /\ (/\ phase = "done" /\ op = "google_callback_post"
        /\ (HasError(req.data) \/ NoCode(req.data)))
            => (resp.status = 400 /\ rpcs = <<>>)

(***************************************************************************)
(* Claims about the credentials and the order of the remote calls          *)
(***************************************************************************)

\* The token verifier accepted the token of a request to a chat route, and
\* the handler, or chat_stream for send_message, has run.
VerifiedChatRequest == op \in ChatRoutes /\ "token_info" \in DOMAIN req

HandlerRan ==
    IF op = "send_message" THEN stream.pc \notin {"none", "start"}
    ELSE phase = "done"

\* C21: for a request to a chat route whose bearer token the token verifier
\* accepts, the handler issues its first remote call, and issues it with a
\* credential object whose token is the bearer token of the request; it
\* does not fail between the verification and that call.
C21_CredentialFromBearerToken ==
    (VerifiedChatRequest /\ HandlerRan) =>
        /\ Len(rpcs) >= 1
        /\ rpcs[1].credentials.token = req.token

\* The names of the remote calls of the current request, in the order of
\* their issue.
Issued == [i \in 1..Len(rpcs) |-> rpcs[i].rpc]

\* The first remote call of the current request failed.
FirstCallFailed == Len(rpcs) >= 1 /\ ~rpcs[1].outcome.ok

\* C22: the remote calls of a request are issued one after another, the
\* second only when the first has returned.  send_message issues the agent
\* lookup and then the chat call; after a failed lookup it issues no chat
\* call and the stream is the one error line of that failure.  update_agent
\* issues the get and then the update; after a failed get it issues no
\* update.
C22_FailedFirstCallSuppressesSecond ==
    /\ op = "send_message" =>
        /\ Issued \in {<<>>, <<"get_data_agent">>, <<"get_data_agent", "chat">>}
        /\ Len(rpcs) = 2 => rpcs[1].outcome.ok
        /\ FirstCallFailed =>
            /\ Len(rpcs) = 1
            /\ stream.lines = <<ErrorLine(rpcs[1].outcome.exc)>>
            /\ stream.pc \in {"error_yielded", "closed"}
    /\ op = "update_agent" =>
        /\ Issued \in {<<"get_data_agent">>, <<"get_data_agent", "update_data_agent">>}
        /\ Len(rpcs) = 2 => rpcs[1].outcome.ok
        /\ FirstCallFailed => Len(rpcs) = 1

\* A stream has ended after a failed agent lookup, with its one line.
C22_Witness ==
    /\ op = "send_message" /\ stream.pc = "closed"
    /\ FirstCallFailed
    /\ Len(stream.lines) = 1
    /\ IsErrorLine(stream.lines[1])

(***************************************************************************)
(* Claims about requests served concurrently                               *)
(***************************************************************************)

\* chat_stream run on its own from position st to its end, on a chat reply:
\* the lines it emits.
RECURSIVE ChatStreamRun(_, _)
ChatStreamRun(st, chatOutcome) ==
    IF st.pc \in {"error_yielded", "closed"} THEN st.lines
    ELSE ChatStreamRun(ChatStreamNext(st, chatOutcome), chatOutcome)

\* The lines of the stream of a send_message served alone, for the request
\* of the task and the answers its remote calls have got so far.
ChatStreamAlone(task) ==
    LET unasked == [ok |-> FALSE, exc |-> Unauthenticated]
        getOutcome == IF Len(task.rpcs) >= 1 THEN task.rpcs[1].outcome ELSE unasked
        chatOutcome == IF Len(task.rpcs) >= 2 THEN task.rpcs[2].outcome ELSE unasked
        begun == ChatStreamBegin(task.req.conversation_name, task.req.agent_name,
                                 task.req.message_req.text, task.req.token_info,
                                 getOutcome, chatOutcome)
    IN  IF begun.raised THEN <<ErrorLine(begun.exc)>>
        ELSE ChatStreamRun([pc |-> "start", k |-> 0, lines |-> <<>>], chatOutcome)

\* The request of task u is being served, and it has been answered in full.
Pending(u) == tasks[u].phase \notin {"idle", "done"}
Completed(u) == tasks[u].phase = "done"

\* chat_stream of task t has run to a yield or to the await of
\* asyncio.sleep(0).
Emitted(t) ==
    /\ tasks[t].phase = "streaming"
    /\ tasks[t].stream.pc \in {"yielded", "error_yielded", "sleeping"}

\* A stream that has emitted a line does not hold the thread of the loop.
CededAfterEveryLine == \A t \in Tasks : Emitted(t) => running # t

\* The lines of every stream are the lines of the same request served
\* alone.
LinesAsAlone ==
    \A t \in Tasks :
        (/\ tasks[t].phase \in {"streaming", "done"}
         /\ tasks[t].stream.pc \notin {"none", "start", "begun"})
            => tasks[t].stream.lines = ChatStreamAlone(tasks[t])

\* C23: with requests served concurrently on the event loop, a stream gives
\* up the thread of the loop after every line it emits; while the stream of
\* task 1 waits for a client that consumes no line, every other request
\* being served goes on and is answered in full, and the request of task 1
\* goes on until it is answered or waits for its client; and the lines of
\* each stream are those of the same request served alone.
C23_StalledClientBlocksNoOne ==
    /\ []CededAfterEveryLine
    /\ []LinesAsAlone
    /\ \A u \in Tasks :
        Pending(u) ~> (Completed(u) \/ (u = 1 /\ AwaitsClient(u)))

\* The stream of task 1 waits for its client, which has consumed nothing,
\* while the stream of task 2 has emitted a line, had it consumed, and
\* holds the thread of the loop for its next chunk.
C23_Witness ==
    /\ AwaitsClient(1)
    /\ tasks[1].consumed = 0
    /\ running = 2
    /\ tasks[2].op = "send_message"
    /\ tasks[2].stream.pc = "taking"
    /\ Len(tasks[2].stream.lines) = 1
    /\ tasks[2].consumed = 1

====
